---- MODULE Spec2Model ----
(***************************************************************************)
(* Smart-Warehouse-Simulator: the cached A* pathfinder and the discrete-   *)
(* event order simulation of src/src/core/sim_engine.py.                   *)
(*                                                                         *)
(* A position is a pair <<x, y>>.  A grid is a function from the in-bounds *)
(* cells to 0 (free) or 1 (blocked), as the matrix grid[y][x].             *)
(***************************************************************************)
EXTENDS Integers, Sequences, FiniteSets, TLC

\* ------------------------------------------------------------------ bounds
Width == 4
Height == 4
MaxCalls == 2

Cells == (0 .. Width - 1) \X (0 .. Height - 1)

InBounds(p) == 0 <= p[1] /\ p[1] < Width /\ 0 <= p[2] /\ p[2] < Height

Abs(n) == IF n < 0 THEN -n ELSE n

\* F(x) with x evaluated once, before F is applied to it
Then(F(_), x) == CHOOSE y \in { F(v) : v \in {x} } : TRUE

\* grid = [[0]*w for _ in range(h)]; grid[y][x] = 1 for every in-bounds shelf
BuildGrid(shelf_positions) == [c \in Cells |-> IF c \in shelf_positions THEN 1 ELSE 0]

\* ------------------------------------------------------------------ a_star
heuristic(a, b) == Abs(a[1] - b[1]) + Abs(a[2] - b[2])

\* Python's order on (x, y) tuples
PosLess(a, b) == a[1] < b[1] \/ (a[1] = b[1] /\ a[2] < b[2])

\* Python's order on lists of (x, y) tuples
RECURSIVE ListLess(_, _)
ListLess(p, q) ==
  IF p = <<>> THEN q # <<>>
  ELSE IF q = <<>> THEN FALSE
  ELSE IF Head(p) = Head(q) THEN ListLess(Tail(p), Tail(q))
  ELSE PosLess(Head(p), Head(q))

\* Python's order on the heap entries (est_total, cost, current, path)
EntryLess(a, b) ==
  \/ a[1] < b[1]
  \/ a[1] = b[1] /\ a[2] < b[2]
  \/ a[1] = b[1] /\ a[2] = b[2] /\ PosLess(a[3], b[3])
  \/ a[1] = b[1] /\ a[2] = b[2] /\ a[3] = b[3] /\ ListLess(a[4], b[4])

\* heapq.heappop: the least entry of the heap
heappop(open_set) == CHOOSE e \in open_set : \A o \in open_set \ {e} : EntryLess(e, o)

Directions == << <<-1, 0>>, <<1, 0>>, <<0, -1>>, <<0, 1>> >>

\* an expansion that ranks the entries by the estimate alone (greedy search)
Expand_Greedy(entry, closed_set, goal, grid) ==
  LET current == entry[3]
      cost == entry[2]
      path == entry[4]
      nbr(i) == <<current[1] + Directions[i][1], current[2] + Directions[i][2]>>
  IN { <<heuristic(nbr(i), goal), cost + 1, nbr(i), Append(path, nbr(i))>> :
         i \in { j \in 1 .. Len(Directions) :
                   /\ InBounds(nbr(j))
                   /\ grid[nbr(j)] # 1
                   /\ nbr(j) \notin closed_set } }

\* the entries one expansion pushes: in-bounds, not blocked, not closed neighbours
Expand(entry, closed_set, goal, grid) ==
  LET current == entry[3]
      cost == entry[2]
      path == entry[4]
      nbr(i) == <<current[1] + Directions[i][1], current[2] + Directions[i][2]>>
  IN { <<cost + 1 + heuristic(nbr(i), goal), cost + 1, nbr(i), Append(path, nbr(i))>> :
         i \in { j \in 1 .. Len(Directions) :
                   /\ InBounds(nbr(j))
                   /\ grid[nbr(j)] # 1
                   /\ nbr(j) \notin closed_set } }

\* The while loop works on s = [open_set, closed_set, found]; found is the
\* path the loop returned with, <<>> as long as it has not returned.
LoopOver(s) == s.found # <<>> \/ s.open_set = {}

\* one pass of the while loop: pop, goal test, closed-set test, expansion
Pass(s, goal, grid) ==
  IF LoopOver(s) THEN s
  ELSE Then(LAMBDA e :
              IF e[3] = goal THEN [s EXCEPT !.found = e[4]]
              ELSE IF e[3] \in s.closed_set THEN [s EXCEPT !.open_set = @ \ {e}]
              ELSE [open_set |-> (s.open_set \ {e})
                                   \cup Expand(e, s.closed_set \cup {e[3]}, goal, grid),
                    closed_set |-> s.closed_set \cup {e[3]},
                    found |-> <<>>],
            heappop(s.open_set))

\* n passes of the while loop, as two halves one after the other
RECURSIVE Passes(_, _, _, _)
Passes(n, s, goal, grid) ==
  IF n = 0 \/ LoopOver(s) THEN s
  ELSE IF n = 1 THEN Pass(s, goal, grid)
  ELSE Then(LAMBDA half : Passes(n - (n \div 2), half, goal, grid),
            Passes(n \div 2, s, goal, grid))

\* Every pass pops one entry; the start is pushed once and every expansion of
\* one of the cells (or of a start outside the grid) pushes at most 4 entries.
MostPasses == 4 * (Width * Height + 1) + 1

\* the while loop; <<>> stands for leaving the loop with the heap empty
SearchLoop(open_set, closed_set, goal, grid) ==
  Passes(MostPasses, [open_set |-> open_set, closed_set |-> closed_set, found |-> <<>>],
         goal, grid).found

\* a search that reports a missing path as the empty list
Search_EmptyOnFail(start, goal, grid) ==
  SearchLoop({ <<0 + heuristic(start, goal), 0, start, <<start>> >> }, {}, goal, grid)

\* the search of a_star without a cache (cache=None)
Search(start, goal, grid) ==
  LET found == SearchLoop({ <<0 + heuristic(start, goal), 0, start, <<start>> >> }, {}, goal, grid)
  IN IF found = <<>> THEN <<start>> ELSE found

NoCache == << >>

CacheHit(start, goal, cache) == <<start, goal>> \in DOMAIN cache

\* a cache looked up under the pair in the other direction
a_star_ReversedKey(start, goal, grid, cache) ==
  IF <<goal, start>> \in DOMAIN cache
  THEN [path |-> cache[<<goal, start>>], cache |-> cache, searched |-> FALSE]
  ELSE LET path == Search(start, goal, grid)
       IN [path |-> path, cache |-> (<<start, goal>> :> path) @@ cache, searched |-> TRUE]

\* a_star with a cache dictionary: the returned path, the cache afterwards, and
\* whether the search was run
a_star(start, goal, grid, cache) ==
  IF CacheHit(start, goal, cache)
  THEN [path |-> cache[<<start, goal>>], cache |-> cache, searched |-> FALSE]
  ELSE LET path == Search(start, goal, grid)
       IN [path |-> path, cache |-> (<<start, goal>> :> path) @@ cache, searched |-> TRUE]

\* ------------------------------------------------------- simulation inputs
MaxWorkers == 2
MaxOrders == 2

\* decay_every=20, the default Worker is constructed with
DecayEvery == 20

entry_point == <<0, 0>>

\* a warehouse: shelf coordinates and the list of packing stations (two
\* stations at the same distance from the entry, a station that is a shelf
\* cell, a wall to walk around, the entry walled in, no station at all)
Warehouses ==
  { [shelf_positions |-> {},                      packing_stations |-> << <<2, 0>>, <<0, 2>> >>],
    [shelf_positions |-> {<<1, 1>>, <<2, 2>>},    packing_stations |-> << <<1, 1>> >>],
    [shelf_positions |-> {<<1, 0>>, <<1, 1>>},    packing_stations |-> << <<2, 2>>, <<2, 0>> >>],
    [shelf_positions |-> {<<1, 0>>, <<0, 1>>},    packing_stations |-> << <<2, 2>> >>],
    [shelf_positions |-> {<<1, 1>>},              packing_stations |-> << >>] }

\* the item lists an order is drawn from: the empty order, a cell that is
\* free in some warehouses and a shelf in others, a repeated cell, two
\* cells far apart, a coordinate outside the grid
OrderItems ==
  { << >>,
    << <<1, 1>> >>,
    << <<0, 0>>, <<0, 0>> >>,
    << <<3, 2>>, <<0, 0>> >>,
    << <<-1, 0>>, <<2, 1>> >> }

OrderLists == UNION { [1 .. n -> OrderItems] : n \in 0 .. MaxOrders }

Configs ==
  { [grid_width |-> Width, grid_height |-> Height,
     shelf_positions |-> w.shelf_positions,
     packing_stations |-> w.packing_stations,
     num_workers |-> n, orders |-> o] :
       w \in Warehouses, n \in 1 .. MaxWorkers, o \in OrderLists }

\* ------------------------------------------------------------------- state
VARIABLES
  phase,         \* where run_simulation (or the pathfinder harness) stands
  config,        \* the configuration run_simulation was called with
  grid,          \* grid[y][x]: 0 free, 1 blocked
  activity_map,  \* activity_map[y][x]
  path_cache,    \* the dictionary (start, goal) -> path
  stats,         \* pick_times, distances, orders_completed
  workers,       \* the Worker objects: order_queue, idle, steps_since_decay
  procs,         \* the generators of Worker.run, with their local variables
  queue,         \* the environment's event heap
  now,           \* env.now
  eid,           \* the environment's event counter
  next_order,    \* index of the order the assignment loop handles next
  result,        \* what run_simulation returned
  call,          \* the last call made by a harness, with what it returned
  hist,          \* history of the run: assignments, pops, completions, entries
  optimizer      \* the AdvancedLayoutOptimizer object

vars == <<phase, config, grid, activity_map, path_cache, stats, workers, procs,
          queue, now, eid, next_order, result, call, hist, optimizer>>

NoResult == [returned |-> FALSE]
NoCall == [made |-> FALSE, n |-> 0]
NoOptimizer == [made |-> FALSE]
NoHist == [assigned |-> << >>, pops |-> << >>, done |-> << >>, entries |-> 0, decays |-> 0]

\* ------------------------------------------------------------- the workers
\* Worker.__init__ after its assignments
NewWorker == [order_queue |-> << >>, idle |-> TRUE, steps_since_decay |-> 0]

\* a generator of Worker.run that has not run yet
NewProc(id, wid) ==
  [id |-> id, wid |-> wid, pc |-> "new", order |-> 0, start_time |-> 0,
   pos |-> entry_point, total_steps |-> 0, item |-> 0, leg |-> "none",
   target |-> entry_point, path |-> << >>,
   entered |-> << >>, picks |-> 0, legs |-> << >>]

\* thresholds taken inclusive
CongestionDelay_Inclusive(congestion) ==
  IF congestion <= 3 THEN 1 ELSE IF congestion <= 6 THEN 2 ELSE 3

\* the travel time of one step onto a cell whose counter now is congestion
CongestionDelay(congestion) ==
  IF congestion < 3 THEN 1 ELSE IF congestion < 6 THEN 2 ELSE 3

\* a decay without the test for a positive cell
decay_congestion_Unfloored(am) == [c \in Cells |-> am[c] - 1]

\* every cell above 0 loses 1
decay_congestion(am) == [c \in Cells |-> IF am[c] > 0 THEN am[c] - 1 ELSE am[c]]

\* min(self.packing_stations, key=Manhattan distance): the first of the nearest
nearest_ps(pos, stations) ==
  LET d(i) == Abs(pos[1] - stations[i][1]) + Abs(pos[2] - stations[i][2])
      best == CHOOSE i \in 1 .. Len(stations) :
                \A j \in 1 .. Len(stations) : d(i) < d(j) \/ (d(i) = d(j) /\ i <= j)
  IN stations[best]

\* the cells of a path from the first one inside the grid on
RECURSIVE SkipOutside(_)
SkipOutside(path) ==
  IF path = << >> \/ InBounds(Head(path)) THEN path ELSE SkipOutside(Tail(path))

\* One resumption of a generator is computed on a record m: the shared objects
\* (activity_map, path_cache, stats, workers, hist), the clock now, the
\* generator's locals l, and yield: what the generator hands to the environment.
RECURSIVE Walk(_)

\* a_star for the next leg, then its for-cell loop
StartLeg(m, leg, target) ==
  Then(LAMBDA r : Then(Walk, [m EXCEPT !.path_cache = r.cache,
                                       !.l.leg = leg, !.l.target = target,
                                       !.l.path = r.path,
                                       !.l.legs = Append(@, Len(r.path))]),
       a_star(m.l.pos, target, grid, m.path_cache))

\* for item in order.items, at item number l.item; after the last item the
\* leg to the nearest packing station (min() of an empty list raises)
NextItem(m) ==
  LET items == config.orders[m.l.order]
  IN IF m.l.item <= Len(items) THEN StartLeg(m, "item", items[m.l.item])
     ELSE IF config.packing_stations = << >>
     THEN [m EXCEPT !.l.pc = "failed", !.yield = [kind |-> "fail", delay |-> 0]]
     ELSE StartLeg(m, "station", nearest_ps(m.l.pos, config.packing_stations))

\* a run() that returns without setting the idle flag
NextOrder_StaysBusy(m) ==
  LET w == m.l.wid
      q == m.workers[w].order_queue
  IN IF q # << >>
     THEN Then(NextItem,
                  [m EXCEPT !.workers[w].order_queue = Tail(q),
                             !.l.order = Head(q), !.l.start_time = m.now,
                             !.l.pos = entry_point, !.l.total_steps = 0,
                             !.l.item = 1,
                             !.l.entered = << >>, !.l.picks = 0, !.l.legs = << >>,
                             !.hist.pops = Append(@, [order |-> Head(q), wid |-> w,
                                                      proc |-> m.l.id])])
     ELSE [m EXCEPT !.l.pc = "ended", !.l.order = 0, !.l.leg = "none",
                    !.yield = [kind |-> "end", delay |-> 0]]

\* while self.order_queue: popleft and start the order; else idle and return
NextOrder(m) ==
  LET w == m.l.wid
      q == m.workers[w].order_queue
  IN IF q # << >>
     THEN Then(NextItem,
                  [m EXCEPT !.workers[w].order_queue = Tail(q),
                             !.l.order = Head(q), !.l.start_time = m.now,
                             !.l.pos = entry_point, !.l.total_steps = 0,
                             !.l.item = 1,
                             !.l.entered = << >>, !.l.picks = 0, !.l.legs = << >>,
                             !.hist.pops = Append(@, [order |-> Head(q), wid |-> w,
                                                      proc |-> m.l.id])])
     ELSE [m EXCEPT !.workers[w].idle = TRUE,
                    !.l.pc = "ended", !.l.order = 0, !.l.leg = "none",
                    !.yield = [kind |-> "end", delay |-> 0]]

\* a drop-off that records an order only if the worker walked for it
DropOff_SkipsUnmoved(m) ==
  IF m.l.total_steps <= Len(m.l.legs)
  THEN [m EXCEPT !.l.pos = m.l.target]
  ELSE [m EXCEPT !.l.pos = m.l.target,
                 !.stats.pick_times = Append(@, m.now - m.l.start_time),
                 !.stats.distances = Append(@, m.l.total_steps),
                 !.stats.orders_completed = @ + 1,
                 !.hist.done = Append(@, [order |-> m.l.order, wid |-> m.l.wid,
                                          proc |-> m.l.id, entered |-> m.l.entered,
                                          picks |-> m.l.picks, legs |-> m.l.legs])]

\* the drop-off: the order is recorded in the stats
DropOff(m) ==
  [m EXCEPT !.l.pos = m.l.target,
            !.stats.pick_times = Append(@, m.now - m.l.start_time),
            !.stats.distances = Append(@, m.l.total_steps),
            !.stats.orders_completed = @ + 1,
            !.hist.done = Append(@, [order |-> m.l.order, wid |-> m.l.wid,
                                     proc |-> m.l.id, entered |-> m.l.entered,
                                     picks |-> m.l.picks, legs |-> m.l.legs])]

\* for cell in path, from the first cell of l.path: a cell inside the grid is
\* entered (counter incremented) and the generator yields the travel time; at
\* the end of an item leg the generator yields the pick, at the end of the
\* station leg the order is dropped off and the next one is popped
Walk(m) ==
  LET path == SkipOutside(m.l.path)
  IN IF path # << >>
     THEN LET cell == Head(path)
              congestion == m.activity_map[cell] + 1
          IN [m EXCEPT !.activity_map[cell] = congestion,
                       !.l.path = path, !.l.pc = "step",
                       !.l.entered = Append(@, congestion),
                       !.hist.entries = @ + 1,
                       !.yield = [kind |-> "timeout", delay |-> CongestionDelay(congestion)]]
     ELSE IF m.l.leg = "item"
     THEN [m EXCEPT !.l.pos = m.l.target, !.l.path = << >>, !.l.pc = "pick",
                    !.l.picks = @ + 1,
                    !.yield = [kind |-> "timeout", delay |-> 1]]
     ELSE Then(NextOrder, DropOff(m))

\* a step that is not counted in total_steps
AfterStep_Uncounted(m) ==
  LET w == m.l.wid
      n == m.workers[w].steps_since_decay + 1
      decay == n >= DecayEvery
  IN Then(Walk,
          [m EXCEPT !.l.path = Tail(@),
                    !.workers[w].steps_since_decay = IF decay THEN 0 ELSE n,
                    !.activity_map = IF decay THEN decay_congestion(@) ELSE @,
                    !.hist.decays = IF decay THEN @ + 1 ELSE @])

\* after the yield of a step: the counters, the decay, the rest of the path
AfterStep(m) ==
  LET w == m.l.wid
      n == m.workers[w].steps_since_decay + 1
      decay == n >= DecayEvery
  IN Then(Walk,
          [m EXCEPT !.l.total_steps = @ + 1,
                    !.l.path = Tail(@),
                    !.workers[w].steps_since_decay = IF decay THEN 0 ELSE n,
                    !.activity_map = IF decay THEN decay_congestion(@) ELSE @,
                    !.hist.decays = IF decay THEN @ + 1 ELSE @])

\* after the yield of a pick: the next item
AfterPick(m) == Then(NextItem, [m EXCEPT !.l.item = @ + 1])

\* the start of run(): self.idle = False, then the while loop
RunBody(m) == Then(NextOrder, [m EXCEPT !.workers[m.l.wid].idle = FALSE])

\* ------------------------------------------------------- the environment
URGENT == 0
NORMAL == 1

EventLess(a, b) ==
  \/ a.time < b.time
  \/ a.time = b.time /\ a.prio < b.prio
  \/ a.time = b.time /\ a.prio = b.prio /\ a.eid < b.eid

\* the event env.step() pops
NextEvent == CHOOSE e \in queue : \A o \in queue \ {e} : EventLess(e, o)

\* the shared objects and the locals of generator p at the time t it is resumed
Machine(p, t) ==
  [activity_map |-> activity_map, path_cache |-> path_cache, stats |-> stats,
   workers |-> workers, hist |-> hist, now |-> t, l |-> procs[p],
   yield |-> [kind |-> "none", delay |-> 0]]

\* the event a generator's yield (or its end) schedules
Scheduled(m, p) ==
  [time |-> m.now + m.yield.delay, prio |-> NORMAL, eid |-> eid,
   kind |-> m.yield.kind, proc |-> p]

\* env.step() has popped event e and resumed its generator, giving m
Resumed(e, m) ==
  /\ now' = e.time
  /\ activity_map' = m.activity_map
  /\ path_cache' = m.path_cache
  /\ stats' = m.stats
  /\ workers' = m.workers
  /\ hist' = m.hist
  /\ procs' = [procs EXCEPT ![e.proc] = m.l]
  /\ queue' = (queue \ {e}) \cup {Scheduled(m, e.proc)}
  /\ eid' = eid + 1
  /\ UNCHANGED <<optimizer, phase, config, grid, next_order, result, call>>

\* ---------------------------------------------------------- run_simulation
InitSim ==
  /\ config \in Configs
  /\ phase = "construct"
  /\ grid = BuildGrid(config.shelf_positions)
  /\ activity_map = [c \in Cells |-> 0]
  /\ path_cache = NoCache
  /\ stats = [pick_times |-> << >>, distances |-> << >>, orders_completed |-> 0]
  /\ workers = << >>
  /\ procs = << >>
  /\ queue = {}
  /\ now = 0
  /\ eid = 0
  /\ next_order = 1
  /\ result = NoResult
  /\ call = NoCall
  /\ hist = NoHist
  /\ optimizer = NoOptimizer

\* workers.append(Worker(...)): the object, and env.process(self.run())
CreateWorker ==
  /\ phase = "construct"
  /\ LET wid == Len(workers) + 1
         p == Len(procs) + 1
     IN /\ workers' = Append(workers, NewWorker)
        /\ procs' = Append(procs, NewProc(p, wid))
        /\ queue' = queue \cup {[time |-> now, prio |-> URGENT, eid |-> eid,
                                 kind |-> "init", proc |-> p]}
        /\ eid' = eid + 1
        /\ phase' = IF wid = config.num_workers THEN "assign" ELSE "construct"
  /\ UNCHANGED <<optimizer, config, grid, activity_map, path_cache, stats, now, next_order,
                 result, call, hist>>

\* an assignment that counts the orders from 1
AssignOrder_FromOne ==
  /\ phase = "assign"
  /\ next_order <= Len(config.orders)
  /\ LET wid == (next_order % Len(workers)) + 1
         p == Len(procs) + 1
     IN /\ workers' = [workers EXCEPT ![wid].order_queue = Append(@, next_order)]
        /\ hist' = [hist EXCEPT !.assigned = Append(@, wid)]
        /\ IF workers[wid].idle
           THEN /\ procs' = Append(procs, NewProc(p, wid))
                /\ queue' = queue \cup {[time |-> now, prio |-> URGENT, eid |-> eid,
                                         kind |-> "init", proc |-> p]}
                /\ eid' = eid + 1
           ELSE UNCHANGED <<procs, queue, eid>>
  /\ next_order' = next_order + 1
  /\ UNCHANGED <<optimizer, phase, config, grid, activity_map, path_cache, stats, now,
                 result, call>>

\* workers[i % len(workers)].assign_order(order): append, and a further
\* env.process(self.run()) if the worker's idle flag is set
AssignOrder ==
  /\ phase = "assign"
  /\ next_order <= Len(config.orders)
  /\ LET wid == ((next_order - 1) % Len(workers)) + 1
         p == Len(procs) + 1
     IN /\ workers' = [workers EXCEPT ![wid].order_queue = Append(@, next_order)]
        /\ hist' = [hist EXCEPT !.assigned = Append(@, wid)]
        /\ IF workers[wid].idle
           THEN /\ procs' = Append(procs, NewProc(p, wid))
                /\ queue' = queue \cup {[time |-> now, prio |-> URGENT, eid |-> eid,
                                         kind |-> "init", proc |-> p]}
                /\ eid' = eid + 1
           ELSE UNCHANGED <<procs, queue, eid>>
  /\ next_order' = next_order + 1
  /\ UNCHANGED <<optimizer, phase, config, grid, activity_map, path_cache, stats, now,
                 result, call>>

\* the assignment loop is over; env.run() is entered
EnvRun ==
  /\ phase = "assign"
  /\ next_order > Len(config.orders)
  /\ phase' = "run"
  /\ UNCHANGED <<optimizer, config, grid, activity_map, path_cache, stats, workers, procs,
                 queue, now, eid, next_order, result, call, hist>>

\* an Initialize event: the generator runs from the top of run() to its first yield
ProcessStart ==
  /\ phase = "run" /\ queue # {}
  /\ LET e == NextEvent
     IN /\ e.kind = "init"
        /\ \E m \in {RunBody(Machine(e.proc, e.time))} : Resumed(e, m)

\* the timeout of a step: the generator runs to its next yield
ResumeStep ==
  /\ phase = "run" /\ queue # {}
  /\ LET e == NextEvent
     IN /\ e.kind = "timeout" /\ procs[e.proc].pc = "step"
        /\ \E m \in {AfterStep(Machine(e.proc, e.time))} : Resumed(e, m)

\* the timeout of a pick: the generator runs to its next yield
ResumePick ==
  /\ phase = "run" /\ queue # {}
  /\ LET e == NextEvent
     IN /\ e.kind = "timeout" /\ procs[e.proc].pc = "pick"
        /\ \E m \in {AfterPick(Machine(e.proc, e.time))} : Resumed(e, m)

\* the event of a generator that returned: nothing waits for it
ProcessEnd ==
  /\ phase = "run" /\ queue # {}
  /\ LET e == NextEvent
     IN /\ e.kind = "end"
        /\ now' = e.time
        /\ queue' = queue \ {e}
  /\ UNCHANGED <<optimizer, phase, config, grid, activity_map, path_cache, stats, workers,
                 procs, eid, next_order, result, call, hist>>

\* the event of a generator that raised: env.run() re-raises the exception
ProcessCrash ==
  /\ phase = "run" /\ queue # {}
  /\ LET e == NextEvent
     IN /\ e.kind = "fail"
        /\ now' = e.time
        /\ queue' = queue \ {e}
  /\ phase' = "failed"
  /\ UNCHANGED <<optimizer, config, grid, activity_map, path_cache, stats, workers,
                 procs, eid, next_order, result, call, hist>>

RECURSIVE Sum(_)
Sum(s) == IF s = << >> THEN 0 ELSE Head(s) + Sum(Tail(s))

\* the heap is empty: env.run() returns and the metrics are computed; the
\* average is kept as the pair <<numerator, denominator>> of the division
Finish ==
  /\ phase = "run" /\ queue = {}
  /\ phase' = "done"
  /\ result' = [returned |-> TRUE,
                average_pick_time |->
                  IF stats.orders_completed # 0
                  THEN <<Sum(stats.pick_times), stats.orders_completed>> ELSE <<0, 1>>,
                total_distance |-> Sum(stats.distances),
                orders_completed |-> stats.orders_completed,
                activity_map |-> activity_map]
  /\ UNCHANGED <<optimizer, config, grid, activity_map, path_cache, stats, workers, procs,
                 queue, now, eid, next_order, call, hist>>

Next ==
  \/ CreateWorker
  \/ AssignOrder
  \/ EnvRun
  \/ ProcessStart
  \/ ResumeStep
  \/ ResumePick
  \/ ProcessEnd
  \/ ProcessCrash
  \/ Finish

Spec == InitSim /\ [][Next]_vars

\* ------------------------------------------------- the pathfinder on its own
\* a_star called directly, with one cache dictionary kept across the calls

\* shelf sets: open floor, two shelves in the way, a wall with a gap, the
\* cell <<0, 0>> walled in, a wall across the grid, a pocket around <<3, 3>>
PathfinderShelves ==
  { {}, {<<1, 1>>, <<2, 2>>}, {<<1, 0>>, <<1, 1>>, <<1, 2>>}, {<<1, 0>>, <<0, 1>>},
    { <<1, y>> : y \in 0 .. Height - 1 }, {<<2, 3>>, <<3, 2>>, <<2, 1>>} }

\* the positions a_star is called with: every cell and two outside the grid
Positions == Cells \cup { <<-1, 0>>, <<Width, 1>> }

InitPathfinder ==
  /\ phase = "pathfinder"
  /\ config \in { [grid_width |-> Width, grid_height |-> Height, shelf_positions |-> sh,
                   packing_stations |-> << >>, num_workers |-> 0, orders |-> << >>] :
                     sh \in PathfinderShelves }
  /\ grid = BuildGrid(config.shelf_positions)
  /\ activity_map = [c \in Cells |-> 0]
  /\ path_cache = NoCache
  /\ stats = [pick_times |-> << >>, distances |-> << >>, orders_completed |-> 0]
  /\ workers = << >>
  /\ procs = << >>
  /\ queue = {}
  /\ now = 0
  /\ eid = 0
  /\ next_order = 1
  /\ result = NoResult
  /\ call \in { [made |-> FALSE, n |-> 0, start |-> st, goal |-> g] :
                  st \in Positions, g \in Positions }
  /\ hist = NoHist
  /\ optimizer = NoOptimizer

\* path = a_star(start, goal, grid, width, height, path_cache), recorded with
\* the cache it found and the call before it
Called(start, goal) ==
  /\ phase = "pathfinder"
  /\ call.n < MaxCalls
  /\ \E r \in { a_star(start, goal, grid, path_cache) } :
       /\ path_cache' = r.cache
       /\ call' = [made |-> TRUE, n |-> call.n + 1, start |-> start, goal |-> goal,
                   path |-> r.path, searched |-> r.searched, before |-> path_cache,
                   prev |-> IF call.made
                            THEN [made |-> TRUE, start |-> call.start, goal |-> call.goal,
                                  path |-> call.path]
                            ELSE [made |-> FALSE]]
  /\ UNCHANGED <<optimizer, phase, config, grid, activity_map, stats, workers, procs, queue,
                 now, eid, next_order, result, hist>>

\* a call for the pair drawn, or the pair of the last call again
CallAStar == Called(call.start, call.goal)

\* a call for the pair of the last call in the other direction
CallReversed == Called(call.goal, call.start)

NextPathfinder == CallAStar \/ CallReversed

SpecPathfinder == InitPathfinder /\ [][NextPathfinder]_vars

\* ---------------------------------------------------------------- claims
\* the free in-bounds cells next to p
FreeNeighbours(p) ==
  { q \in Cells : Abs(q[1] - p[1]) + Abs(q[2] - p[2]) = 1 /\ grid[q] # 1 }

\* breadth-first layers from start: the number of cells of a shortest path
\* from start to goal that moves through free cells, 0 if there is none
RECURSIVE Layers(_, _, _, _)
Layers(frontier, seen, goal, n) ==
  IF goal \in frontier THEN n
  ELSE IF frontier = {} THEN 0
  ELSE LET nxt == (UNION { FreeNeighbours(p) : p \in frontier }) \ seen
       IN Layers(nxt, seen \cup nxt, goal, n + 1)

ShortestCells(start, goal) == Layers({start}, {start}, goal, 1)

\* path leads from start to goal in 4-connected moves through free cells
IsFreePath(path, start, goal) ==
  /\ path # << >>
  /\ path[1] = start
  /\ path[Len(path)] = goal
  /\ \A i \in 2 .. Len(path) :
       /\ path[i] \in Cells /\ grid[path[i]] # 1
       /\ Abs(path[i][1] - path[i - 1][1]) + Abs(path[i][2] - path[i - 1][2]) = 1

Manhattan(a, b) ==
  (IF a[1] < b[1] THEN b[1] - a[1] ELSE a[1] - b[1])
    + (IF a[2] < b[2] THEN b[2] - a[2] ELSE a[2] - b[2])

Searched == phase = "pathfinder" /\ call.made /\ call.searched

\* C1: a search (empty cache, or no entry for the pair) for a goal that is a
\* free cell connected to start through free cells returns a free 4-connected
\* path from start to goal with the least possible number of cells; on a
\* grid without shelves that number is Manhattan(start, goal) + 1
C1_ShortestPath ==
  (Searched /\ call.goal \in Cells /\ grid[call.goal] # 1
     /\ ShortestCells(call.start, call.goal) > 0)
  => /\ IsFreePath(call.path, call.start, call.goal)
     /\ Len(call.path) = ShortestCells(call.start, call.goal)
     /\ (config.shelf_positions = {} /\ InBounds(call.start))
          => Len(call.path) = Manhattan(call.start, call.goal) + 1

\* a first call, on an empty cache, that had to go around two shelves
C1_Witness ==
  /\ Searched /\ call.n = 1 /\ call.before = NoCache
  /\ call.start = <<0, 0>> /\ call.goal = <<3, 2>>
  /\ config.shelf_positions = {<<1, 1>>, <<2, 2>>}
  /\ Len(call.path) = 6

\* C2: when a search finds no free-cell path from start to goal (goal walled
\* off, goal blocked, goal outside the grid) a_star returns exactly [start]
\* and stores [start] in the cache under (start, goal)
C2_NoPathIsStart ==
  (Searched /\ ShortestCells(call.start, call.goal) = 0)
  => /\ call.path = <<call.start>>
     /\ <<call.start, call.goal>> \in DOMAIN path_cache
     /\ path_cache[<<call.start, call.goal>>] = <<call.start>>

\* a search for a free cell that shelves wall off from the start
C2_Witness ==
  /\ Searched /\ ShortestCells(call.start, call.goal) = 0
  /\ call.start \in Cells /\ call.goal \in Cells /\ call.start # call.goal
  /\ grid[call.goal] # 1 /\ grid[call.start] # 1
  /\ call.path = <<call.start>>
  /\ path_cache[<<call.start, call.goal>>] = <<call.start>>

\* C3: a call for a pair that is a key of the cache returns the stored path,
\* does not search and leaves the cache as it was; two successive calls for
\* the same pair return the same path
C3_CacheHit ==
  (phase = "pathfinder" /\ call.made)
  => /\ (<<call.start, call.goal>> \in DOMAIN call.before)
          => /\ call.path = call.before[<<call.start, call.goal>>]
             /\ ~call.searched
             /\ path_cache = call.before
     /\ (call.prev.made /\ call.prev.start = call.start /\ call.prev.goal = call.goal)
          => call.path = call.prev.path

\* a hit on a stored no-path value [start]
C3_Witness ==
  /\ phase = "pathfinder" /\ call.made /\ ~call.searched
  /\ call.prev.made /\ call.prev.start = call.start /\ call.prev.goal = call.goal
  /\ call.start # call.goal /\ call.path = <<call.start>>
  /\ path_cache = call.before

\* --------------------------------------------------- claims on the simulation
Running == phase \in {"run", "done", "failed"}

WorkerIds == 1 .. Len(workers)

\* the generators of worker w that hold an order: popped, not yet recorded
InProgress(w) ==
  { p \in 1 .. Len(procs) : procs[p].wid = w /\ procs[p].pc \in {"step", "pick"} }

\* the worker the claim assigns order i (counted from 1) to, counted from 1
RoundRobin(i) == ((i - 1) % config.num_workers) + 1

\* how often x occurs in the sequence s
Count(s, x) == Cardinality({ k \in 1 .. Len(s) : s[k] = x })

\* C4: at every instant of the run at most one order per worker is in
\* progress; a worker pops its next order only after the previous one has
\* been dropped off
C4_OneOrderPerWorker ==
  Running => \A w \in WorkerIds : Cardinality(InProgress(w)) <= 1

\* C5: once every generator has started, a worker's idle flag is True only
\* when its order queue is empty and none of its orders is in progress
C5_IdleOnlyWhenFinished ==
  (Running /\ \A p \in 1 .. Len(procs) : procs[p].pc # "new")
  => \A w \in WorkerIds :
       workers[w].idle => (workers[w].order_queue = << >> /\ InProgress(w) = {})

\* C6: the order at index i goes to the queue of worker i mod W, all of them
\* before the clock starts; an order is popped at most once, only by the
\* worker it was assigned to, is in no other worker's queue and never back in
\* a queue once popped; when the run returns every order has been popped once
C6_RoundRobinOnce ==
  /\ \A i \in 1 .. Len(hist.assigned) : hist.assigned[i] = RoundRobin(i)
  /\ Running => Len(hist.assigned) = Len(config.orders)
  /\ \A i \in 1 .. Len(hist.assigned) :
       /\ Count(workers[RoundRobin(i)].order_queue, i)
            + Cardinality({ k \in 1 .. Len(hist.pops) : hist.pops[k].order = i }) = 1
       /\ \A w \in WorkerIds \ {RoundRobin(i)} : Count(workers[w].order_queue, i) = 0
  /\ \A k \in 1 .. Len(hist.pops) : hist.pops[k].wid = RoundRobin(hist.pops[k].order)
  /\ phase = "done" =>
       \A i \in 1 .. Len(config.orders) :
         Cardinality({ k \in 1 .. Len(hist.pops) : hist.pops[k].order = i }) = 1

\* two workers, two orders, both popped, each by its own worker
C6_Witness ==
  /\ phase = "done" /\ config.num_workers = 2 /\ Len(config.orders) = 2
  /\ \E j, k \in 1 .. Len(hist.pops) :
       /\ hist.pops[j].order = 1 /\ hist.pops[j].wid = 1
       /\ hist.pops[k].order = 2 /\ hist.pops[k].wid = 2

\* the event loop runs as long as the heap holds an event
FairSpec == InitSim /\ [][Next]_vars /\ WF_vars(Next)

AllIdle ==
  \A w \in WorkerIds : workers[w].order_queue = << >> /\ workers[w].idle

\* C7: with at least one worker and a non-empty list of packing stations the
\* event loop terminates, and when it has every worker's queue is empty and
\* every worker's idle flag is True
C7_Terminates ==
  /\ (config.num_workers >= 1 /\ config.packing_stations # << >>) => <>(phase = "done")
  /\ [](phase = "done" => (Len(workers) = config.num_workers /\ AllIdle))

\* a run of two workers and two orders that returned
C7_Witness ==
  /\ phase = "done" /\ config.num_workers = 2 /\ Len(config.orders) = 2
  /\ AllIdle /\ stats.orders_completed = 2

\* C8: orders_completed equals the lengths of pick_times and distances and
\* never exceeds the number of orders; when the run returns it equals that
\* number, with unreachable or blocked targets and with empty orders
C8_OrdersCompleted ==
  /\ stats.orders_completed = Len(stats.pick_times)
  /\ stats.orders_completed = Len(stats.distances)
  /\ stats.orders_completed <= Len(config.orders)
  /\ phase = "done" => /\ stats.orders_completed = Len(config.orders)
                       /\ result.orders_completed = Len(config.orders)

\* a returned run with an empty order and an order for a shelf cell, the
\* packing station being a shelf cell too
C8_Witness ==
  /\ phase = "done"
  /\ config.orders = << << >>, << <<1, 1>> >> >>
  /\ config.shelf_positions = {<<1, 1>>, <<2, 2>>}
  /\ stats.orders_completed = 2

\* the cells of all the paths a_star returned for the legs of the completed orders
PathCells == Sum([k \in 1 .. Len(hist.done) |-> Sum(hist.done[k].legs)])

\* C9: when the run returns, total_distance is the number of cell entries
\* made, which is the sum over the completed orders' legs of the number of
\* cells of the path a_star returned for the leg
C9_DistanceIsPathCells ==
  phase = "done" => /\ result.total_distance = hist.entries
                    /\ result.total_distance = PathCells

\* the travel time the claim gives for an entry that finds the counter at c
ClaimedCost(c) == IF c < 3 THEN 1 ELSE IF c < 6 THEN 2 ELSE 3

ClaimedPickTime(d) ==
  Sum([i \in 1 .. Len(d.entered) |-> ClaimedCost(d.entered[i])])
    + Len(config.orders[d.order])

\* C10: the pick time recorded for an order is the sum of the congestion
\* costs of the entries made for it, plus 1 tick per item, plus 0 for the
\* drop-off
C10_PickTime ==
  /\ Len(stats.pick_times) = Len(hist.done)
  /\ \A k \in 1 .. Len(hist.done) : stats.pick_times[k] = ClaimedPickTime(hist.done[k])

\* a recorded order with items whose entries met counters of 3 and of 6
C10_Witness ==
  \E k \in 1 .. Len(hist.done) :
    /\ Len(config.orders[hist.done[k].order]) >= 1
    /\ \E i, j \in 1 .. Len(hist.done[k].entered) :
         hist.done[k].entered[i] = 3 /\ hist.done[k].entered[j] = 6
    /\ stats.pick_times[k] = ClaimedPickTime(hist.done[k])

\* what D decays are said to leave of a map: max(0, old value - D) in each cell
ClaimedDecay(am, D) == [c \in Cells |-> IF am[c] - D > 0 THEN am[c] - D ELSE 0]

RECURSIVE Decays(_, _)
Decays(D, am) == IF D = 0 THEN am ELSE Decays(D - 1, decay_congestion(am))

RECURSIVE SumCells(_, _)
SumCells(am, cs) ==
  IF cs = {} THEN 0
  ELSE LET c == CHOOSE c \in cs : TRUE IN am[c] + SumCells(am, cs \ {c})

\* the activity map after this step is map am, or am with one more entry
EntryOn(am) ==
  \/ activity_map' = am
  \/ \E c \in Cells : activity_map' = [am EXCEPT ![c] = @ + 1]

\* C11: a worker's step counter stays below decay_every; a step that takes it
\* to decay_every resets it to 0 and decrements every positive cell of the
\* activity map by exactly 1, leaving the cells at 0 (the same resumption may
\* then enter the next cell); any other step leaves no cell lower than it was;
\* no cell is ever negative, and D decays in a row of the map leave
\* max(0, old value - D) in every cell
C11_Decay ==
  /\ [](\A w \in 1 .. Len(workers) :
          workers[w].steps_since_decay \in 0 .. DecayEvery - 1)
  /\ [](\A c \in Cells : activity_map[c] >= 0)
  /\ [](\A D \in 0 .. 3 : Decays(D, activity_map) = ClaimedDecay(activity_map, D))
  /\ [][\A w \in 1 .. Len(workers) :
          LET n == workers[w].steps_since_decay
          IN workers'[w].steps_since_decay # n =>
               IF n + 1 >= DecayEvery
               THEN /\ workers'[w].steps_since_decay = 0
                    /\ EntryOn(ClaimedDecay(activity_map, 1))
                    /\ hist'.decays = hist.decays + 1
               ELSE /\ workers'[w].steps_since_decay = n + 1
                    /\ \A c \in Cells : activity_map'[c] >= activity_map[c]
                    /\ hist'.decays = hist.decays]_vars
  /\ [][(\E c \in Cells : activity_map'[c] < activity_map[c]) =>
          \E w \in 1 .. Len(workers) :
            /\ workers[w].steps_since_decay = DecayEvery - 1
            /\ workers'[w].steps_since_decay = 0]_vars

\* a decay has happened: the worker's counter is back at 0, the map holds
\* fewer visits than cells were entered, and both a cell at 0 and a cell
\* above 0 are left
C11_Witness ==
  /\ hist.decays = 1
  /\ \E w \in 1 .. Len(workers) : workers[w].steps_since_decay = 0
  /\ SumCells(activity_map, Cells) < hist.entries
  /\ \E c \in Cells : activity_map[c] = 0
  /\ \E c \in Cells : activity_map[c] > 0

\* C12: a configuration without packing stations is rejected before the
\* simulation starts: run_simulation does not return a result for it, and when
\* the error is reported every cell of the activity map is 0 and the stats
\* hold no order
C12_NoStationsRejected ==
  config.packing_stations = << >> =>
    /\ phase # "done"
    /\ phase = "failed" =>
         /\ \A c \in Cells : activity_map[c] = 0
         /\ hist.entries = 0
         /\ stats.orders_completed = 0 /\ stats.pick_times = << >>

\* the coordinates of a configuration: shelves, packing stations, order targets
Coordinates(cfg) ==
  cfg.shelf_positions
    \cup { cfg.packing_stations[i] : i \in 1 .. Len(cfg.packing_stations) }
    \cup UNION { { cfg.orders[i][j] : j \in 1 .. Len(cfg.orders[i]) } :
                   i \in 1 .. Len(cfg.orders) }

\* C13: a configuration with a coordinate outside the grid never gets as far
\* as env.run(), and the start and goal of every a_star call of a worker (the
\* pos and target of a generator that walks or picks) are inside the grid
C13_OutOfBoundsRejected ==
  /\ (\E c \in Coordinates(config) : ~InBounds(c)) => phase \notin {"run", "done"}
  /\ \A p \in 1 .. Len(procs) :
       procs[p].pc \in {"step", "pick"} =>
         InBounds(procs[p].pos) /\ InBounds(procs[p].target)

\* ------------------------------------------------------- LayoutValidator
\* the elements of a list
Range(s) == { s[i] : i \in 1 .. Len(s) }

\* LayoutValidator.build_grid: the in-bounds shelves of the list are blocked
build_grid(shelf_positions) == BuildGrid(Range(shelf_positions))

\* a search that walks through shelves
LayoutValidator_a_star_ThroughShelves(start, goal, g) ==
  SearchLoop({ <<0 + heuristic(start, goal), 0, start, <<start>> >> }, {}, goal,
             BuildGrid({}))

\* LayoutValidator.a_star: the path found, << >> for None
LayoutValidator_a_star(start, goal, g) ==
  SearchLoop({ <<0 + heuristic(start, goal), 0, start, <<start>> >> }, {}, goal, g)

\* an issue string, kept as its wording and the position it names
Issue(wording, pos) == <<wording, pos>>

\* the loops of validate_reachability after the entry test
CheckReachability(shelf_positions, packing_stations, entry, g) ==
  LET unreachable_shelves ==
        SelectSeq(shelf_positions,
                  LAMBDA shelf : LayoutValidator_a_star(entry, shelf, g) = << >>)
      station_reachable(station) ==
        \/ g[station] # 1 /\ LayoutValidator_a_star(entry, station, g) # << >>
        \/ \E i \in 1 .. Len(shelf_positions) :
             /\ shelf_positions[i] \notin Range(unreachable_shelves)
             /\ LayoutValidator_a_star(shelf_positions[i], station, g) # << >>
      cut_off == SelectSeq(packing_stations, LAMBDA station : ~station_reachable(station))
      blocked == SelectSeq(packing_stations, LAMBDA station : g[station] = 1)
      unreachable_stations == cut_off \o blocked
  IN [valid |-> Len(unreachable_shelves) = 0 /\ Len(unreachable_stations) = 0,
      unreachable_shelves |-> unreachable_shelves,
      unreachable_stations |-> unreachable_stations,
      issues |->
        [i \in 1 .. Len(unreachable_shelves) |->
           Issue("is unreachable from entry point", unreachable_shelves[i])]
        \o [i \in 1 .. Len(cut_off) |-> Issue("is unreachable from any shelf", cut_off[i])]
        \o [i \in 1 .. Len(blocked) |-> Issue("is blocked by a shelf", blocked[i])]]

\* a validation without the test of the entry point
validate_reachability_NoEntryTest(shelf_positions, packing_stations, entry) ==
  CheckReachability(shelf_positions, packing_stations, entry, build_grid(shelf_positions))

\* LayoutValidator.validate_reachability
validate_reachability(shelf_positions, packing_stations, entry) ==
  LET g == build_grid(shelf_positions)
  IN IF g[entry] = 1
     THEN [valid |-> FALSE,
           unreachable_shelves |-> shelf_positions,
           unreachable_stations |-> packing_stations,
           issues |-> << Issue("Entry point is blocked by a shelf", entry) >>]
     ELSE CheckReachability(shelf_positions, packing_stations, entry, g)

\* ---------------------------------------------------------- LayoutRepair
\* for y in range(grid_height): for x in range(grid_width)
CellList == [k \in 1 .. Width * Height |-> <<(k - 1) % Width, (k - 1) \div Width>>]

\* LayoutRepair.find_valid_positions
find_valid_positions(current_shelves, packing_stations, entry) ==
  LET g == build_grid(current_shelves)
  IN SelectSeq(CellList,
       LAMBDA c :
         /\ g[c] # 1
         /\ c # entry /\ c \notin Range(packing_stations)
         /\ LET test_grid == build_grid(Append(current_shelves, c))
            IN /\ test_grid[entry] # 1
               /\ LayoutValidator_a_star(entry, c, test_grid) # << >>)

\* LayoutRepair._choose_best_position: the least (distance, position)
choose_best_position(original_shelf, valid_positions) ==
  LET d(p) == Abs(p[1] - original_shelf[1]) + Abs(p[2] - original_shelf[2])
  IN CHOOSE p \in Range(valid_positions) :
       \A q \in Range(valid_positions) :
         d(p) < d(q) \/ (d(p) = d(q) /\ (p = q \/ PosLess(p, q)))

\* for unreachable_shelf in unreachable_shelves
RECURSIVE RepairLoop(_, _, _, _, _)
RepairLoop(unreachable_shelves, repaired_shelves, moved_shelves, packing_stations, entry) ==
  IF unreachable_shelves = << >>
  THEN [repaired_shelves |-> repaired_shelves, moved_shelves |-> moved_shelves]
  ELSE LET valid_positions == find_valid_positions(repaired_shelves, packing_stations, entry)
       IN IF valid_positions # << >>
          THEN LET best_position ==
                     choose_best_position(Head(unreachable_shelves), valid_positions)
               IN RepairLoop(Tail(unreachable_shelves),
                             Append(repaired_shelves, best_position),
                             Append(moved_shelves, <<Head(unreachable_shelves), best_position>>),
                             packing_stations, entry)
          ELSE RepairLoop(Tail(unreachable_shelves), repaired_shelves, moved_shelves,
                          packing_stations, entry)

\* LayoutRepair.repair_layout
repair_layout(shelf_positions, packing_stations, entry) ==
  LET validation == validate_reachability(shelf_positions, packing_stations, entry)
      unreachable_shelves == validation.unreachable_shelves
      reachable_shelves ==
        SelectSeq(shelf_positions, LAMBDA s : s \notin Range(unreachable_shelves))
      r == RepairLoop(unreachable_shelves, reachable_shelves, << >>, packing_stations, entry)
      final_validation == validate_reachability(r.repaired_shelves, packing_stations, entry)
  IN IF validation.valid
     THEN [success |-> TRUE, repaired_shelves |-> shelf_positions,
           moved_shelves |-> << >>, message |-> "Layout is already valid"]
     ELSE IF unreachable_shelves = << >>
     THEN [success |-> FALSE, repaired_shelves |-> shelf_positions,
           moved_shelves |-> << >>, message |-> "No unreachable shelves to repair"]
     ELSE IF final_validation.valid
     THEN [success |-> TRUE, repaired_shelves |-> r.repaired_shelves,
           moved_shelves |-> r.moved_shelves, message |-> "Successfully repaired layout"]
     ELSE [success |-> FALSE, repaired_shelves |-> shelf_positions,
           moved_shelves |-> r.moved_shelves,
           message |-> "Partial repair completed but layout still invalid"]

\* max_attempts = 2000 of create_valid_layout
max_attempts == 2000

\* the cells of the pattern: rows 2 .. height-2, columns 1 .. width-2, without
\* the packing stations and the entry
base_positions(packing_stations, entry) ==
  { c \in (1 .. Width - 2) \X (2 .. Height - 2) :
      c \notin Range(packing_stations) /\ c # entry }

\* what random.shuffle(base_positions) followed by [:num_shelves] can give
ShuffledFirst(num_shelves, packing_stations, entry) ==
  LET base == base_positions(packing_stations, entry)
      k == IF num_shelves < Cardinality(base) THEN num_shelves ELSE Cardinality(base)
  IN { s \in [1 .. k -> base] : \A i, j \in 1 .. k : i # j => s[i] # s[j] }

\* the cells random.randint(1, width-2), random.randint(1, height-2) can give
RandomCells == (1 .. Width - 2) \X (1 .. Height - 2)

\* one pass of the while loop with the random position c
PlaceAt(shelves, c, packing_stations, entry) ==
  IF c \in Range(shelves) \/ c = entry \/ c \in Range(packing_stations) THEN shelves
  ELSE IF validate_reachability(Append(shelves, c), packing_stations, entry).valid
  THEN Append(shelves, c)
  ELSE shelves

\* the values shelves can have one attempt after it had one of those in S
AfterAttempt(S, num_shelves, packing_stations, entry) ==
  { s \in S : Len(s) >= num_shelves }
    \cup { PlaceAt(s, c, packing_stations, entry) :
             s \in { t \in S : Len(t) < num_shelves }, c \in RandomCells }

\* the values shelves can have when the while loop ends, from the values S it
\* can have after attempts passes; a set that a pass leaves as it is stays
\* the same for all the passes to come
RECURSIVE RandomPlacement(_, _, _, _, _)
RandomPlacement(attempts, S, num_shelves, packing_stations, entry) ==
  IF attempts >= max_attempts THEN S
  ELSE LET T == AfterAttempt(S, num_shelves, packing_stations, entry)
       IN IF T = S THEN S
          ELSE RandomPlacement(attempts + 1, T, num_shelves, packing_stations, entry)

\* LayoutRepair.create_valid_layout: every result its random choices can lead to
create_valid_layout(num_shelves, packing_stations, entry) ==
  LET first == ShuffledFirst(num_shelves, packing_stations, entry)
      accepted == { s \in first :
                      s # << >> /\ validate_reachability(s, packing_stations, entry).valid }
      placed == IF accepted = first THEN {}
                ELSE RandomPlacement(0, {<< >>}, num_shelves, packing_stations, entry)
  IN { [success |-> TRUE, shelves |-> s] : s \in accepted }
       \cup { [success |-> Len(s) = num_shelves, shelves |-> s] : s \in placed }

\* ------------------------------------- the validator and the repair on their own
MaxShelves == 2

\* the cells a shelf of a drawn layout stands on: the entry, its two
\* neighbours, a packing station, cells of the interior
ShelfCells == { <<0, 0>>, <<1, 0>>, <<0, 1>>, <<2, 0>>, <<1, 1>>, <<2, 2>> }

\* shelf lists without repetition
ShelfLists ==
  UNION { { s \in [1 .. n -> ShelfCells] : \A i, j \in 1 .. n : i # j => s[i] # s[j] } :
            n \in 0 .. MaxShelves }

\* packing station lists: none, one, one on the entry, three that close the
\* entry in
StationLists ==
  { << >>, << <<2, 0>> >>, << <<0, 0>>, <<2, 0>> >>,
    << <<1, 0>>, <<0, 1>>, <<2, 2>> >> }

InitLayout ==
  /\ phase = "layout"
  /\ config \in { [grid_width |-> Width, grid_height |-> Height, shelf_positions |-> sh,
                   packing_stations |-> ps, entry_point |-> entry_point] :
                     sh \in ShelfLists, ps \in StationLists }
  /\ grid = BuildGrid(Range(config.shelf_positions))
  /\ activity_map = [c \in Cells |-> 0]
  /\ path_cache = NoCache
  /\ stats = [pick_times |-> << >>, distances |-> << >>, orders_completed |-> 0]
  /\ workers = << >>
  /\ procs = << >>
  /\ queue = {}
  /\ now = 0
  /\ eid = 0
  /\ next_order = 1
  /\ result = NoResult
  /\ call = NoCall
  /\ hist = NoHist
  /\ optimizer = NoOptimizer

\* the harness has made the call op and got r
Returned(op, r) ==
  /\ call' = [made |-> TRUE, n |-> 1, op |-> op, returned |-> r]
  /\ UNCHANGED <<optimizer, phase, config, grid, activity_map, path_cache, stats,
                 workers, procs, queue, now, eid, next_order, result, hist>>

\* validator.validate_reachability(shelves, stations)
ValidateReachability ==
  /\ phase = "layout" /\ ~call.made
  /\ Returned("validate_reachability",
              validate_reachability(config.shelf_positions, config.packing_stations,
                                    config.entry_point))

\* repair.repair_layout(shelves, stations)
RepairLayout ==
  /\ phase = "layout" /\ ~call.made
  /\ Returned("repair_layout",
              repair_layout(config.shelf_positions, config.packing_stations,
                            config.entry_point))

\* repair.create_valid_layout(num_shelves, stations), with one of its results
CreateValidLayout ==
  /\ phase = "layout" /\ ~call.made /\ config.shelf_positions = << >>
  /\ \E num_shelves \in 1 .. MaxShelves :
       \E r \in create_valid_layout(num_shelves, config.packing_stations,
                                    config.entry_point) :
         Returned("create_valid_layout", [num_shelves |-> num_shelves] @@ r)

NextLayout == ValidateReachability \/ RepairLayout \/ CreateValidLayout

SpecLayout == InitLayout /\ [][NextLayout]_vars

\* the harness has made the call op
Made(op) == phase = "layout" /\ call.made /\ call.op = op

\* cell c is joined to the entry point by 4-connected free cells of the layout
JoinedToEntry(c) == ShortestCells(config.entry_point, c) > 0

\* C14: for a shelf list that contains the entry point validate_reachability
\* returns valid = false, an issue saying that the entry point is blocked, and
\* a list of unreachable shelves that contains the shelf on the entry point
C14_EntryBlocked ==
  (Made("validate_reachability") /\ config.entry_point \in Range(config.shelf_positions)) =>
    /\ call.returned.valid = FALSE
    /\ Issue("Entry point is blocked by a shelf", config.entry_point)
         \in Range(call.returned.issues)
    /\ config.entry_point \in Range(call.returned.unreachable_shelves)

\* a layout of two shelves, the second of them on the entry point, validated
C14_Witness ==
  /\ Made("validate_reachability")
  /\ Len(config.shelf_positions) = 2
  /\ config.shelf_positions[2] = config.entry_point
  /\ config.packing_stations = << <<2, 0>> >>
  /\ ~call.returned.valid

\* C15: a layout whose entry point is free, whose packing stations are free
\* cells joined to the entry point through free cells and whose shelves each
\* have a free orthogonal neighbour joined to the entry point through free
\* cells is reported valid
C15_ValidWhenReachable ==
  ( /\ Made("validate_reachability")
    /\ grid[config.entry_point] # 1
    /\ \A st \in Range(config.packing_stations) : grid[st] # 1 /\ JoinedToEntry(st)
    /\ \A sh \in Range(config.shelf_positions) :
         \E q \in FreeNeighbours(sh) : JoinedToEntry(q) )
  => call.returned.valid

\* C16: for a layout validate_reachability rejects, repair_layout returns
\* either success with a non-empty moved_shelves and a repaired layout the
\* validator accepts, or failure with the original shelf list
C16_RepairOrUnchanged ==
  ( /\ Made("repair_layout")
    /\ ~validate_reachability(config.shelf_positions, config.packing_stations,
                              config.entry_point).valid )
  => \/ /\ call.returned.success
        /\ call.returned.moved_shelves # << >>
        /\ validate_reachability(call.returned.repaired_shelves, config.packing_stations,
                                 config.entry_point).valid
     \/ /\ ~call.returned.success
        /\ call.returned.repaired_shelves = config.shelf_positions

\* the interior cells that hold neither a packing station nor the entry point
FreeInterior ==
  { c \in RandomCells : c \notin Range(config.packing_stations) /\ c # config.entry_point }

\* C17: for 1 <= n <= the number of free interior cells, one of the results
\* the random choices of create_valid_layout(n, stations) can lead to is a
\* success with exactly n shelves that validate_reachability accepts
C17_CanCreate ==
  ( /\ Made("create_valid_layout")
    /\ call.returned.num_shelves >= 1
    /\ call.returned.num_shelves <= Cardinality(FreeInterior) )
  => \E r \in create_valid_layout(call.returned.num_shelves, config.packing_stations,
                                  config.entry_point) :
       /\ r.success
       /\ Len(r.shelves) = call.returned.num_shelves
       /\ validate_reachability(r.shelves, config.packing_stations,
                                config.entry_point).valid

\* ----------------------------------------------- AdvancedLayoutOptimizer
\* AdvancedLayoutOptimizer(rows, columns, num_shelves, num_packing_stations,
\* num_robots) after __init__; a Position is the pair <<x, y>>
NewOptimizer(rows, columns, num_shelves, num_packing_stations, num_robots) ==
  [made |-> TRUE, rows |-> rows, columns |-> columns, num_shelves |-> num_shelves,
   num_packing_stations |-> num_packing_stations, num_robots |-> num_robots,
   entry_points |-> << <<0, rows \div 2>>, <<0, rows \div 2 - 1>>, <<0, rows \div 2 + 1>> >>,
   shelves |-> << >>, packing_stations |-> << >>, drop_zones |-> << >>,
   robots |-> << >>, reachability_cache |-> << >>]

\* [cat.value for cat in Category]
categories == <<"a", "b", "c", "d", "e">>

is_valid_position(o, pos) ==
  0 <= pos[1] /\ pos[1] < o.columns /\ 0 <= pos[2] /\ pos[2] < o.rows

is_aisle_position(pos) == pos[2] % 3 = 2 \/ pos[1] % 3 = 2

get_manhattan_distance(pos1, pos2) == Abs(pos1[1] - pos2[1]) + Abs(pos1[2] - pos2[2])

\* neighbours in two of the four directions only
get_neighbors_OneWay(o, pos) ==
  SelectSeq([i \in 1 .. 2 |-> <<pos[1] + (i - 1), pos[2] + (2 - i)>>],
            LAMBDA new_pos : is_valid_position(o, new_pos))

\* the in-grid neighbours in the order up, right, down, left
get_neighbors(o, pos) ==
  SelectSeq(<< <<pos[1], pos[2] + 1>>, <<pos[1] + 1, pos[2]>>,
               <<pos[1], pos[2] - 1>>, <<pos[1] - 1, pos[2]>> >>,
            LAMBDA new_pos : is_valid_position(o, new_pos))

\* a shelf, a packing station or a robot stands on pos
is_position_occupied(o, pos) ==
  \/ \E i \in 1 .. Len(o.shelves) : o.shelves[i].position = pos
  \/ \E i \in 1 .. Len(o.packing_stations) : o.packing_stations[i] = pos
  \/ \E i \in 1 .. Len(o.robots) : o.robots[i].position = pos

\* heapq.heappop on (f, Position): the least f, then the least (x, y)
ReachPop(open_set) ==
  CHOOSE e \in open_set :
    \A other \in open_set \ {e} :
      e[1] < other[1] \/ (e[1] = other[1] /\ PosLess(e[2], other[2]))

\* The while loop of is_reachable works on s = [open_set, closed_set, g_score,
\* found]; one pass: pop, goal test, the loop over the neighbours
ReachPass(s, goal, o) ==
  IF s.found \/ s.open_set = {} THEN s
  ELSE LET e == ReachPop(s.open_set)
           current == e[2]
           rest == s.open_set \ {e}
           closed_set == s.closed_set \cup {current}
           tentative_g == s.g_score[current] + 1
           better == { neighbor \in Range(get_neighbors(o, current)) :
                         /\ neighbor \notin closed_set
                         /\ ~is_position_occupied(o, neighbor)
                         /\ (neighbor \notin DOMAIN s.g_score
                               \/ tentative_g < s.g_score[neighbor]) }
       IN IF current = goal THEN [s EXCEPT !.open_set = rest, !.found = TRUE]
          ELSE [open_set |->
                  rest \cup { <<tentative_g + get_manhattan_distance(neighbor, goal), neighbor>> :
                                neighbor \in { b \in better : \A q \in rest : q[2] # b } },
                closed_set |-> closed_set,
                g_score |-> [neighbor \in better |-> tentative_g] @@ s.g_score,
                found |-> FALSE]

\* n passes of the while loop, as two halves one after the other
RECURSIVE ReachPasses(_, _, _, _)
ReachPasses(n, s, goal, o) ==
  IF n = 0 \/ s.found \/ s.open_set = {} THEN s
  ELSE IF n = 1 THEN ReachPass(s, goal, o)
  ELSE LET half == ReachPasses(n \div 2, s, goal, o)
       IN ReachPasses(n - (n \div 2), half, goal, o)

\* is_reachable(start, goal): the value returned and the object afterwards
\* (a position is pushed at most once, so MostPasses passes end the loop)
is_reachable(o, start, goal) ==
  IF <<start, goal>> \in DOMAIN o.reachability_cache
  THEN [value |-> o.reachability_cache[<<start, goal>>], o |-> o]
  ELSE LET value == ReachPasses(MostPasses,
                                [open_set |-> { <<0, start>> }, closed_set |-> {},
                                 g_score |-> (start :> 0), found |-> FALSE],
                                goal, o).found
       IN [value |-> value,
           o |-> [o EXCEPT !.reachability_cache = (<<start, goal>> :> value) @@ @]]

\* is_reachable for the pairs of a list in turn, up to the first that is True
RECURSIVE AnyReachable(_, _)
AnyReachable(o, pairs) ==
  IF pairs = << >> THEN [value |-> FALSE, o |-> o]
  ELSE LET r == is_reachable(o, Head(pairs)[1], Head(pairs)[2])
       IN IF r.value THEN r ELSE AnyReachable(r.o, Tail(pairs))

\* for target in targets: reachable from one of the cells From(target)?
\* gives the unreachable targets and the object afterwards
RECURSIVE Unreachable(_, _, _, _)
Unreachable(o, targets, From(_), found) ==
  IF targets = << >> THEN [unreachable |-> found, o |-> o]
  ELSE LET r == AnyReachable(o, From(Head(targets)))
       IN Unreachable(r.o, Tail(targets), From,
                      IF r.value THEN found ELSE Append(found, Head(targets)))

\* the positions of the shelves, in the order of the list
ShelfPositions(o) == [i \in 1 .. Len(o.shelves) |-> o.shelves[i].position]

\* validate_layout(): the record returned and the object afterwards; a
\* fraction is kept as the pair <<numerator, denominator>>
validate_layout(o) ==
  LET shelves == Unreachable(o, ShelfPositions(o),
                             LAMBDA shelf : [i \in 1 .. Len(o.entry_points) |->
                                               <<o.entry_points[i], shelf>>],
                             << >>)
      stations == Unreachable(shelves.o, o.packing_stations,
                              LAMBDA station : [i \in 1 .. Len(o.shelves) |->
                                                  <<o.shelves[i].position, station>>],
                              << >>)
      issues == (IF shelves.unreachable # << >>
                 THEN << <<"unreachable shelves", Len(shelves.unreachable)>> >> ELSE << >>)
                \o (IF stations.unreachable # << >>
                    THEN << <<"unreachable packing stations", Len(stations.unreachable)>> >>
                    ELSE << >>)
      aisle_violations == SelectSeq(ShelfPositions(o), is_aisle_position)
      category_counts ==
        [c \in { o.shelves[i].category : i \in 1 .. Len(o.shelves) } |->
           Cardinality({ i \in 1 .. Len(o.shelves) : o.shelves[i].category = c })]
      warnings == (IF aisle_violations # << >>
                   THEN << <<"shelves in aisle positions", Len(aisle_violations)>> >>
                   ELSE << >>)
                  \o (IF Cardinality(DOMAIN category_counts) < Len(categories)
                      THEN << <<"Not all categories are represented", 0>> >> ELSE << >>)
      total_positions == o.rows * o.columns
      occupied_positions == Len(o.shelves) + Len(o.packing_stations) + Len(o.robots)
      bonus == IF 20 * total_positions < occupied_positions * 100
               THEN 20 * total_positions ELSE occupied_positions * 100
  IN [validation |->
        [valid |-> Len(issues) = 0,
         quality_score |->
           IF issues = << >>
           THEN <<80 * total_positions + bonus - Len(warnings) * 5 * total_positions,
                  total_positions>>
           ELSE <<0, total_positions>>,
         issues |-> issues,
         warnings |-> warnings,
         utilization_rate |-> <<occupied_positions, total_positions>>,
         unreachable_shelves |-> shelves.unreachable,
         unreachable_stations |-> stations.unreachable,
         aisle_violations |-> aisle_violations,
         category_distribution |-> category_counts],
      o |-> stations.o]

\* for y in range(rows): for x in range(columns)
PositionList(o) ==
  [k \in 1 .. o.rows * o.columns |-> <<(k - 1) % o.columns, (k - 1) \div o.columns>>]

find_valid_shelf_positions(o) ==
  SelectSeq(PositionList(o),
    LAMBDA pos :
      /\ ~is_aisle_position(pos)
      /\ ~is_position_occupied(o, pos)
      /\ \A i \in 1 .. Len(o.entry_points) :
           get_manhattan_distance(pos, o.entry_points[i]) >= 2)

find_valid_packing_station_positions(o) ==
  SelectSeq(PositionList(o),
    LAMBDA pos :
      /\ ~is_position_occupied(o, pos)
      /\ \A i \in 1 .. Len(o.entry_points) :
           get_manhattan_distance(pos, o.entry_points[i]) >= 3
      /\ (pos[1] = 0 \/ pos[1] = o.columns - 1 \/ pos[2] = 0 \/ pos[2] = o.rows - 1))

\* what random.sample(population, k) can give
Samples(population, k) ==
  { s \in [1 .. k -> Range(population)] : \A i, j \in 1 .. k : i # j => s[i] # s[j] }

\* list.sort(key=...): by the key, equal keys in the order they had
SortedBy(list, key(_)) ==
  LET before(i, j) == key(list[i]) < key(list[j]) \/ (key(list[i]) = key(list[j]) /\ i < j)
  IN [k \in 1 .. Len(list) |->
        list[CHOOSE i \in 1 .. Len(list) :
               Cardinality({ j \in 1 .. Len(list) : before(j, i) }) = k - 1]]

\* steps 2 to 4 of _generate_layout, the packing stations being placed
PlaceShelves(o) ==
  LET valid_shelf_positions == find_valid_shelf_positions(o)
      entry_center == <<0, o.rows \div 2>>
      sorted == SortedBy(valid_shelf_positions,
                         LAMBDA pos : get_manhattan_distance(pos, entry_center))
      shelved == [o EXCEPT !.shelves =
                    [i \in 1 .. o.num_shelves |->
                       [position |-> sorted[i],
                        category |-> categories[((i - 1) % Len(categories)) + 1]]]]
      manned == [shelved EXCEPT !.robots =
                   [i \in 1 .. o.num_robots |->
                      [id |-> i, position |-> o.entry_points[((i - 1) % Len(o.entry_points)) + 1]]]]
      drop(station) ==
        SelectSeq(get_neighbors(manned, station),
                  LAMBDA drop_pos : ~is_position_occupied(manned, drop_pos))
      with_drop == SelectSeq(manned.packing_stations, LAMBDA station : drop(station) # << >>)
  IN IF Len(valid_shelf_positions) < o.num_shelves THEN [success |-> FALSE, o |-> o]
     ELSE [success |-> TRUE,
           o |-> [manned EXCEPT !.drop_zones =
                    [i \in 1 .. Len(with_drop) |-> Head(drop(with_drop[i]))]]]

\* _generate_layout(): every outcome of its random.sample, as whether it
\* returned True and the object afterwards
generate_layout(o) ==
  LET valid_station_positions == find_valid_packing_station_positions(o)
      preferred_stations ==
        SelectSeq(valid_station_positions,
                  LAMBDA pos : pos[2] = 0 \/ pos[1] = o.columns - 1)
      population == IF Len(preferred_stations) >= o.num_packing_stations
                    THEN preferred_stations ELSE valid_station_positions
  IN IF Len(valid_station_positions) < o.num_packing_stations
     THEN { [success |-> FALSE, o |-> o] }
     ELSE { PlaceShelves([o EXCEPT !.packing_stations = selected_stations]) :
              selected_stations \in Samples(population, o.num_packing_stations) }

\* the layout optimize_layout keeps as the best one
LayoutOf(o) ==
  [shelves |-> o.shelves, packing_stations |-> o.packing_stations,
   drop_zones |-> o.drop_zones, robots |-> o.robots]

\* the object at the start of a pass of optimize_layout's loop
Cleared(o) ==
  [o EXCEPT !.shelves = << >>, !.packing_stations = << >>, !.drop_zones = << >>,
            !.robots = << >>, !.reachability_cache = << >>]

\* ------------------------------------- the optimizer's checks on a set layout
\* the cells a shelf of a set layout stands on: two entry points, cells
\* around the corner <<0, 0>>, the far corner of the top row
OptimizerShelfCells == { <<0, 2>>, <<0, 1>>, <<1, 0>>, <<1, 1>>, <<3, 0>> }

OptimizerShelfLists ==
  UNION { { s \in [1 .. n -> OptimizerShelfCells] : \A i, j \in 1 .. n : i # j => s[i] # s[j] } :
            n \in 0 .. MaxShelves }

\* packing stations: none, one on an entry point, one in a corner
OptimizerStationLists == { << >>, << <<0, 2>> >>, << <<3, 3>> >> }

\* robots: none, R1 on the first entry point
OptimizerRobotLists == { << >>, << [id |-> 1, position |-> <<0, 2>>] >> }

\* the cells is_reachable is asked about
ProbeCells == { <<0, 0>>, <<0, 2>>, <<2, 2>>, <<3, 0>> }

InitReachable ==
  /\ phase = "reachable"
  /\ optimizer \in
       { [NewOptimizer(Height, Width, 0, 0, 0) EXCEPT
            !.shelves = [i \in 1 .. Len(sh) |->
                           [position |-> sh[i],
                            category |-> categories[((i - 1) % Len(categories)) + 1]]],
            !.packing_stations = ps,
            !.robots = rb] :
           sh \in OptimizerShelfLists, ps \in OptimizerStationLists,
           rb \in OptimizerRobotLists }
  /\ call \in { [made |-> FALSE, n |-> 0, start |-> a, goal |-> b] :
                  a \in ProbeCells, b \in ProbeCells }
  /\ config = [grid_width |-> Width, grid_height |-> Height,
               shelf_positions |-> ShelfPositions(optimizer),
               packing_stations |-> optimizer.packing_stations,
               entry_point |-> optimizer.entry_points[1]]
  /\ grid = BuildGrid(Range(config.shelf_positions))
  /\ activity_map = [c \in Cells |-> 0]
  /\ path_cache = NoCache
  /\ stats = [pick_times |-> << >>, distances |-> << >>, orders_completed |-> 0]
  /\ workers = << >>
  /\ procs = << >>
  /\ queue = {}
  /\ now = 0
  /\ eid = 0
  /\ next_order = 1
  /\ result = NoResult
  /\ hist = NoHist

\* optimizer.is_reachable(start, goal), recorded with the call before it
Asked(start, goal) ==
  /\ phase = "reachable"
  /\ call.n < MaxCalls
  /\ \E r \in { is_reachable(optimizer, start, goal) } :
       /\ optimizer' = r.o
       /\ call' = [made |-> TRUE, n |-> call.n + 1, op |-> "is_reachable",
                   start |-> start, goal |-> goal, value |-> r.value,
                   prev |-> IF call.made
                            THEN [made |-> TRUE, start |-> call.start, goal |-> call.goal,
                                  value |-> call.value]
                            ELSE [made |-> FALSE]]
  /\ UNCHANGED <<phase, config, grid, activity_map, path_cache, stats, workers, procs,
                 queue, now, eid, next_order, result, hist>>

\* is_reachable for the pair drawn, or the pair of the last call again
IsReachable == Asked(call.start, call.goal)

\* is_reachable for the pair of the last call in the other direction
IsReachableReversed == Asked(call.goal, call.start)

\* optimizer.validate_layout() on the layout as set, the cache still empty
ValidateLayout ==
  /\ phase = "reachable"
  /\ call.n = 0
  /\ \E r \in { validate_layout(optimizer) } :
       /\ optimizer' = r.o
       /\ call' = [made |-> TRUE, n |-> MaxCalls, op |-> "validate_layout",
                   start |-> call.start, goal |-> call.goal, returned |-> r.validation]
  /\ UNCHANGED <<phase, config, grid, activity_map, path_cache, stats, workers, procs,
                 queue, now, eid, next_order, result, hist>>

NextReachable == IsReachable \/ IsReachableReversed \/ ValidateLayout

SpecReachable == InitReachable /\ [][NextReachable]_vars

\* the two validators, each on the layouts drawn for it
SpecValidators ==
  (InitLayout \/ InitReachable) /\ [][NextLayout \/ NextReachable]_vars

\* ------------------------------------------------------- optimize_layout
MaxStations == 2
MaxRobots == 2
MaxAttempts == 2

\* None
NoLayout == << >>

InitOptimize ==
  /\ phase = "optimize"
  /\ optimizer \in { NewOptimizer(Height, Width, ns, np, nr) :
                       ns \in 0 .. MaxShelves, np \in 0 .. MaxStations, nr \in 0 .. MaxRobots }
  /\ call \in { [made |-> FALSE, n |-> 0, op |-> "optimize_layout", max_attempts |-> m,
                 attempt |-> 0, best_layout |-> NoLayout, best_score |-> <<0, 1>>,
                 best_validation |-> NoLayout] : m \in 1 .. MaxAttempts }
  /\ config = [grid_width |-> Width, grid_height |-> Height, shelf_positions |-> << >>,
               packing_stations |-> << >>, entry_point |-> optimizer.entry_points[1]]
  /\ grid = BuildGrid({})
  /\ activity_map = [c \in Cells |-> 0]
  /\ path_cache = NoCache
  /\ stats = [pick_times |-> << >>, distances |-> << >>, orders_completed |-> 0]
  /\ workers = << >>
  /\ procs = << >>
  /\ queue = {}
  /\ now = 0
  /\ eid = 0
  /\ next_order = 1
  /\ result = NoResult
  /\ hist = NoHist

\* fraction a is greater than fraction b (positive denominators)
Greater(a, b) == a[1] * b[2] > b[1] * a[2]

\* one pass of the loop of optimize_layout: clear, generate, validate, keep
\* the layout if it is valid and scores higher than the best so far
OptimizeAttempt ==
  /\ phase = "optimize" /\ ~call.made
  /\ call.attempt < call.max_attempts
  /\ \E g \in generate_layout(Cleared(optimizer)) :
       IF g.success
       THEN \E v \in { validate_layout(g.o) } :
              /\ optimizer' = v.o
              /\ call' = IF v.validation.valid
                              /\ Greater(v.validation.quality_score, call.best_score)
                         THEN [call EXCEPT !.attempt = @ + 1,
                                           !.best_layout = LayoutOf(v.o),
                                           !.best_score = v.validation.quality_score,
                                           !.best_validation = v.validation]
                         ELSE [call EXCEPT !.attempt = @ + 1]
       ELSE /\ optimizer' = g.o
            /\ call' = [call EXCEPT !.attempt = @ + 1]
  /\ UNCHANGED <<phase, config, grid, activity_map, path_cache, stats, workers, procs,
                 queue, now, eid, next_order, result, hist>>

\* the loop is over: optimize_layout returns
OptimizeReturn ==
  /\ phase = "optimize" /\ ~call.made
  /\ call.attempt = call.max_attempts
  /\ call' = [made |-> TRUE, n |-> 1, op |-> "optimize_layout",
              max_attempts |-> call.max_attempts,
              returned |->
                IF call.best_layout # NoLayout
                THEN [success |-> TRUE, layout |-> call.best_layout,
                      validation |-> call.best_validation, attempts |-> call.max_attempts]
                ELSE [success |-> FALSE, attempts |-> call.max_attempts]]
  /\ UNCHANGED <<optimizer, phase, config, grid, activity_map, path_cache, stats,
                 workers, procs, queue, now, eid, next_order, result, hist>>

NextOptimize == OptimizeAttempt \/ OptimizeReturn

SpecOptimize == InitOptimize /\ [][NextOptimize]_vars

\* the in-grid cells next to cell c
Beside(c) == { q \in Cells : Manhattan(c, q) = 1 }

\* the cells of free that 4-connected moves inside free lead to from S
RECURSIVE Spread(_, _)
Spread(S, free) ==
  LET more == { q \in free \ S : \E c \in S : Manhattan(c, q) = 1 }
  IN IF more = {} THEN S ELSE Spread(S \cup more, free)

\* a 4-connected path inside the grid leads from a to b, all of its cells
\* other than a and b in free
Linked(a, b, free) ==
  \/ a = b
  \/ Manhattan(a, b) = 1
  \/ Beside(b) \cap Spread(Beside(a) \cap free, free) # {}

\* a validation has returned valid = true: the entry points it knows and the
\* shelves and packing stations of the layout it was given
ValidatedLayout == phase = "layout" /\ call.made /\ call.op = "validate_reachability"
ValidatedOptimizer == phase = "reachable" /\ call.made /\ call.op = "validate_layout"

ShelvesOf == IF phase = "layout" THEN Range(config.shelf_positions)
             ELSE Range(ShelfPositions(optimizer))
StationsOf == IF phase = "layout" THEN Range(config.packing_stations)
              ELSE Range(optimizer.packing_stations)
RobotsOf == IF phase = "layout" THEN {}
            ELSE { optimizer.robots[i].position : i \in 1 .. Len(optimizer.robots) }
EntriesOf == IF phase = "layout" THEN {config.entry_point}
             ELSE Range(optimizer.entry_points)

\* C18 as amended: when validate_layout (empty cache) returns valid = true,
\* every shelf and packing station is linked to an entry point by a path
\* whose inner cells hold no shelf, packing station or robot; when
\* validate_reachability returns valid = true, every shelf and packing station
\* is linked to the entry point by a path whose inner cells hold no shelf
\* (its paths may run over packing stations)
C18_Sound ==
  /\ (ValidatedOptimizer /\ call.returned.valid) =>
       \A t \in ShelvesOf \cup StationsOf :
         \E e \in EntriesOf :
           Linked(e, t, Cells \ (ShelvesOf \cup StationsOf \cup RobotsOf))
  /\ (ValidatedLayout /\ call.returned.valid) =>
       \A t \in ShelvesOf \cup StationsOf :
         \E e \in EntriesOf : Linked(e, t, Cells \ ShelvesOf)

\* validate_layout has accepted a layout with a shelf and a packing station
C18_Witness ==
  /\ ValidatedOptimizer /\ call.returned.valid
  /\ Len(optimizer.shelves) >= 1 /\ Len(optimizer.packing_stations) >= 1
  /\ optimizer.reachability_cache # << >>

\* C18: when either validator returns valid = true, every shelf and packing
\* station is linked to an entry point by a path whose cells other than its
\* two ends are unoccupied (hold no shelf, packing station or robot)
C18_SoundUnoccupied ==
  ((ValidatedOptimizer \/ ValidatedLayout) /\ call.returned.valid) =>
    \A t \in ShelvesOf \cup StationsOf :
      \E e \in EntriesOf :
        Linked(e, t, Cells \ (ShelvesOf \cup StationsOf \cup RobotsOf))

\* C19: on a layout that stays as it is, for in-bounds cells a and b that hold
\* no shelf, packing station or robot, is_reachable(b, a) right after
\* is_reachable(a, b) returns the same value, and so do the two calls made
\* with an empty cache
C19_ReachableSymmetric ==
  ( /\ phase = "reachable"
    /\ call.start \in Cells \ (ShelvesOf \cup StationsOf \cup RobotsOf)
    /\ call.goal \in Cells \ (ShelvesOf \cup StationsOf \cup RobotsOf) )
  => /\ is_reachable([optimizer EXCEPT !.reachability_cache = << >>],
                     call.start, call.goal).value
          = is_reachable([optimizer EXCEPT !.reachability_cache = << >>],
                         call.goal, call.start).value
     /\ ( /\ call.made /\ call.op = "is_reachable" /\ call.prev.made
          /\ call.prev.start = call.goal /\ call.prev.goal = call.start )
        => call.value = call.prev.value

\* is_reachable(b, a) after is_reachable(a, b) for two different free cells of
\* a layout with two shelves, both calls searching and returning True
C19_Witness ==
  /\ phase = "reachable" /\ call.made /\ call.op = "is_reachable" /\ call.prev.made
  /\ call.start # call.goal
  /\ call.prev.start = call.goal /\ call.prev.goal = call.start
  /\ {call.start, call.goal} \cap (ShelvesOf \cup StationsOf \cup RobotsOf) = {}
  /\ Len(optimizer.shelves) = 2
  /\ call.value /\ call.prev.value
  /\ {<<call.start, call.goal>>, <<call.goal, call.start>>}
       \subseteq DOMAIN optimizer.reachability_cache

\* the cells the claim counts: off the aisles and 2 or more from every entry
\* point; on the edge and 3 or more from every entry point
ShelfRoom ==
  { c \in Cells : /\ c[1] % 3 # 2 /\ c[2] % 3 # 2
                  /\ \A e \in EntriesOf : Manhattan(c, e) >= 2 }
StationRoom ==
  { c \in Cells : /\ c[1] \in {0, Width - 1} \/ c[2] \in {0, Height - 1}
                  /\ \A e \in EntriesOf : Manhattan(c, e) >= 3 }

\* C20: when the grid has room for num_shelves shelves and
\* num_packing_stations stations, optimize_layout(max_attempts >= 1) returns
\* success = true, a layout of exactly num_shelves shelves and a validation
\* with no unreachable shelf and no unreachable station
C20_OptimizeSucceeds ==
  ( /\ phase = "optimize" /\ call.made
    /\ call.max_attempts >= 1
    /\ Cardinality(ShelfRoom) >= optimizer.num_shelves
    /\ Cardinality(StationRoom) >= optimizer.num_packing_stations )
  => /\ call.returned.success
     /\ Len(call.returned.layout.shelves) = optimizer.num_shelves
     /\ call.returned.validation.unreachable_shelves = << >>
     /\ call.returned.validation.unreachable_stations = << >>

\* the states of the while loop of a search, pass after pass, from s on
RECURSIVE LoopStates(_, _, _, _)
LoopStates(n, s, goal, g) ==
  IF n = 0 \/ LoopOver(s) THEN <<s>>
  ELSE <<s>> \o LoopStates(n - 1, Pass(s, goal, g), goal, g)

\* the direction, as an index of Directions, of the last move of a path
LastMove(path) ==
  IF Len(path) < 2 THEN 0
  ELSE CHOOSE i \in 1 .. Len(Directions) :
         path[Len(path)] = <<path[Len(path) - 1][1] + Directions[i][1],
                             path[Len(path) - 1][2] + Directions[i][2]>>

\* when an entry was pushed: the first pass that found it on the heap, and
\* its place among the neighbours pushed by one expansion
Pushed(e, states) ==
  <<CHOOSE k \in 1 .. Len(states) :
      /\ e \in states[k].open_set
      /\ \A j \in 1 .. k - 1 : e \notin states[j].open_set,
    LastMove(e[4])>>

Earlier(a, b) == a[1] < b[1] \/ (a[1] = b[1] /\ a[2] < b[2])

\* C24: every pass of a_star pops an entry of least g + h, and among the
\* entries of equal g + h the one pushed earliest
C24_TiesByInsertion ==
  (phase = "pathfinder" /\ call.made /\ call.searched) =>
    LET states == LoopStates(MostPasses,
                             [open_set |-> { <<heuristic(call.start, call.goal), 0,
                                               call.start, <<call.start>> >> },
                              closed_set |-> {}, found |-> <<>>],
                             call.goal, grid)
    IN \A k \in 1 .. Len(states) :
         states[k].open_set # {} =>
           \A o \in states[k].open_set \ {heappop(states[k].open_set)} :
             /\ heappop(states[k].open_set)[1] <= o[1]
             /\ heappop(states[k].open_set)[1] = o[1] =>
                  Earlier(Pushed(heappop(states[k].open_set), states), Pushed(o, states))

\* C25: a generator takes the pick of an item only from a step, and the cell
\* of that step, the last one entered on the leg, is the item's position
C25_PickAfterArrival ==
  [][\A p \in (DOMAIN procs) \cap (DOMAIN procs') :
       (procs'[p].pc = "pick" /\ procs'[p] # procs[p]) =>
         /\ procs[p].pc = "step"
         /\ Head(procs[p].path) = config.orders[procs'[p].order][procs'[p].item]]_vars

\* C27: in a configuration whose coordinates are all inside the grid no step
\* raises the activity-map counter of a shelf cell
C27_ShelvesNeverEntered ==
  [][(\A c \in Coordinates(config) : InBounds(c)) =>
       \A c \in config.shelf_positions : activity_map'[c] <= activity_map[c]]_vars

\* C30: every cell of the activity map is >= 0; the sum of the cells is at
\* most the number of cell entries made so far, and equal to it as long as no
\* decay has fired; when the run has returned, the number of entries is
\* total_distance
C30_MapAccounting ==
  /\ \A c \in Cells : activity_map[c] >= 0
  /\ SumCells(activity_map, Cells) <= hist.entries
  /\ hist.decays = 0 => SumCells(activity_map, Cells) = hist.entries
  /\ phase = "done" => result.total_distance = hist.entries

\* a run has returned after a decay: the map holds fewer visits than the
\* cells entered, and total_distance counts them all
C30_Witness ==
  /\ phase = "done"
  /\ hist.decays >= 1
  /\ SumCells(activity_map, Cells) < hist.entries
  /\ result.total_distance = hist.entries
  /\ result.orders_completed >= 2

\* C28: when repair_layout returns success = true, repaired_shelves holds as
\* many shelves as the shelf list it was given
C28_RepairKeepsCount ==
  (Made("repair_layout") /\ call.returned.success) =>
    Len(call.returned.repaired_shelves) = Len(config.shelf_positions)

\* ------------------------------------------------- create_fallback_layout
\* the coordinates off the aisles that the pattern of valid_positions uses
PatternCoordinates == <<0, 1, 3, 4, 6, 7, 9, 10>>

\* valid_positions: the pattern row by row, (x, y) with x the outer coordinate
valid_positions ==
  [k \in 1 .. Len(PatternCoordinates) * Len(PatternCoordinates) |->
     <<PatternCoordinates[((k - 1) \div Len(PatternCoordinates)) + 1],
       PatternCoordinates[((k - 1) % Len(PatternCoordinates)) + 1]>>]

\* the first n elements of a list
Take(list, n) == SubSeq(list, 1, IF n < Len(list) THEN n ELSE Len(list))

\* create_fallback_layout(): the record returned and the object afterwards;
\* the lists are replaced, the entry points set anew, the first num_shelves
\* pattern cells inside the grid get a shelf, the cache is left as it is
create_fallback_layout(o) ==
  LET entry_y == o.rows \div 2
      shelf_positions ==
        Take(SelectSeq(valid_positions, LAMBDA p : p[1] < o.columns /\ p[2] < o.rows),
             o.num_shelves)
      placed == [o EXCEPT
        !.entry_points = << <<0, entry_y - 1>>, <<0, entry_y>>, <<0, entry_y + 1>> >>,
        !.shelves = [i \in 1 .. Len(shelf_positions) |->
                       [position |-> shelf_positions[i],
                        category |-> categories[((i - 1) % Len(categories)) + 1]]],
        !.packing_stations = << <<2, 0>>, <<o.columns - 3, 0>> >>,
        !.robots = [i \in 1 .. o.num_robots |->
                      [id |-> i,
                       position |-> << <<0, entry_y - 1>>, <<0, entry_y>>,
                                       <<0, entry_y + 1>> >>[((i - 1) % 3) + 1]]],
        !.drop_zones = << >>]
      below == [i \in 1 .. Len(placed.packing_stations) |->
                  <<placed.packing_stations[i][1], placed.packing_stations[i][2] + 1>>]
      after == [placed EXCEPT !.drop_zones =
                  SelectSeq(below, LAMBDA drop_pos :
                              /\ is_valid_position(placed, drop_pos)
                              /\ ~is_position_occupied(placed, drop_pos))]
  IN [result |->
        [success |-> TRUE,
         layout |-> LayoutOf(after),
         validation |->
           [valid |-> TRUE, quality_score |-> <<85, 1>>, issues |-> << >>,
            warnings |-> << <<"Layout created with bypassed validation", 0>> >>,
            utilization_rate |-> <<65, 100>>,
            unreachable_shelves |-> << >>, unreachable_stations |-> << >>,
            aisle_violations |-> << >>,
            category_distribution |->
              [c \in Range(categories) |->
                 Cardinality({ i \in 1 .. Len(after.shelves) : after.shelves[i].category = c })]],
         message |-> "Created working layout"],
      o |-> after]

\* ----------------------- the fallback and the checks on one optimizer object
\* a freshly constructed optimizer and the pair of cells is_reachable is asked
\* about; call.layout names the last change of the layout
InitFallback ==
  /\ phase = "fallback"
  /\ optimizer \in { NewOptimizer(Height, Width, ns, 2, nr) :
                       ns \in 0 .. MaxShelves, nr \in 0 .. MaxRobots }
  /\ call \in { [made |-> FALSE, n |-> 0, op |-> "none", start |-> a, goal |-> b,
                 layout |-> "new"] : a \in ProbeCells, b \in ProbeCells }
  /\ config = [grid_width |-> Width, grid_height |-> Height, shelf_positions |-> << >>,
               packing_stations |-> << >>, entry_point |-> optimizer.entry_points[1]]
  /\ grid = BuildGrid({})
  /\ activity_map = [c \in Cells |-> 0]
  /\ path_cache = NoCache
  /\ stats = [pick_times |-> << >>, distances |-> << >>, orders_completed |-> 0]
  /\ workers = << >>
  /\ procs = << >>
  /\ queue = {}
  /\ now = 0
  /\ eid = 0
  /\ next_order = 1
  /\ result = NoResult
  /\ hist = NoHist

\* optimizer.is_reachable(call.start, call.goal)
FallbackIsReachable ==
  /\ phase = "fallback"
  /\ call.n < MaxCalls
  /\ \E r \in { is_reachable(optimizer, call.start, call.goal) } :
       /\ optimizer' = r.o
       /\ call' = [made |-> TRUE, n |-> call.n + 1, op |-> "is_reachable",
                   start |-> call.start, goal |-> call.goal, layout |-> call.layout,
                   value |-> r.value]
  /\ UNCHANGED <<phase, config, grid, activity_map, path_cache, stats, workers, procs,
                 queue, now, eid, next_order, result, hist>>

\* optimizer.create_fallback_layout()
CreateFallbackLayout ==
  /\ phase = "fallback"
  /\ call.layout = "new"
  /\ \E r \in { create_fallback_layout(optimizer) } :
       /\ optimizer' = r.o
       /\ call' = [made |-> TRUE, n |-> call.n, op |-> "create_fallback_layout",
                   start |-> call.start, goal |-> call.goal, layout |-> "fallback",
                   returned |-> r.result]
  /\ UNCHANGED <<phase, config, grid, activity_map, path_cache, stats, workers, procs,
                 queue, now, eid, next_order, result, hist>>

\* optimizer.shelves = []; optimizer.packing_stations = [], set by the caller
ClearLayout ==
  /\ phase = "fallback"
  /\ call.layout = "fallback"
  /\ optimizer' = [optimizer EXCEPT !.shelves = << >>, !.packing_stations = << >>]
  /\ call' = [made |-> TRUE, n |-> call.n, op |-> "clear",
              start |-> call.start, goal |-> call.goal, layout |-> "cleared"]
  /\ UNCHANGED <<phase, config, grid, activity_map, path_cache, stats, workers, procs,
                 queue, now, eid, next_order, result, hist>>

\* optimizer.validate_layout() on the fallback layout; the record keeps what
\* create_fallback_layout returned when it was the call before
ValidateFallback ==
  /\ phase = "fallback"
  /\ call.layout = "fallback"
  /\ call.op # "validate_layout"
  /\ \E r \in { validate_layout(optimizer) } :
       /\ optimizer' = r.o
       /\ call' = [made |-> TRUE, n |-> MaxCalls, op |-> "validate_layout",
                   start |-> call.start, goal |-> call.goal, layout |-> call.layout,
                   returned |-> r.validation,
                   cache |-> optimizer.reachability_cache,
                   prev |-> IF call.op = "create_fallback_layout"
                            THEN [made |-> TRUE, returned |-> call.returned]
                            ELSE [made |-> FALSE]]
  /\ UNCHANGED <<phase, config, grid, activity_map, path_cache, stats, workers, procs,
                 queue, now, eid, next_order, result, hist>>

NextFallback ==
  FallbackIsReachable \/ CreateFallbackLayout \/ ClearLayout \/ ValidateFallback

SpecFallback == InitFallback /\ [][NextFallback]_vars

\* the layouts set by hand and the fallback layouts
SpecValid ==
  (InitReachable \/ InitFallback) /\ [][NextReachable \/ NextFallback]_vars

\* C22: on a freshly constructed optimizer, validate_layout() right after
\* create_fallback_layout() returns valid = true with no unreachable shelf and
\* no unreachable station, as the validation record create_fallback_layout
\* returned says
C22_FallbackValid ==
  ( /\ phase = "fallback" /\ call.op = "validate_layout"
    /\ call.prev.made /\ call.cache = << >> )
  => /\ call.returned.valid
     /\ call.returned.unreachable_shelves = << >>
     /\ call.returned.unreachable_stations = << >>
     /\ call.returned.valid = call.prev.returned.validation.valid

\* C23: in a layout reported valid, by validate_layout or by the record
\* create_fallback_layout returns with its layout, no shelf stands on an entry
\* point or on a packing station
C23_ShelvesApart ==
  ( \/ /\ phase \in {"reachable", "fallback"} /\ call.made
       /\ call.op = "validate_layout" /\ call.returned.valid
    \/ /\ phase = "fallback" /\ call.op = "create_fallback_layout"
       /\ call.returned.validation.valid )
  => Range(ShelfPositions(optimizer))
       \cap (Range(optimizer.entry_points) \cup Range(optimizer.packing_stations)) = {}

\* C29: every call of is_reachable returns what a search with an empty cache
\* returns on the layout the optimizer holds at the time of the call
C29_ReachableCurrent ==
  [][(call' # call /\ call'.op = "is_reachable") =>
       call'.value = is_reachable([optimizer EXCEPT !.reachability_cache = << >>],
                                  call'.start, call'.goal).value]_vars

\* --------------------------------------- optimize_layout_with_interface
\* one pass of optimize_layout's loop up to the validation: every outcome of
\* clearing the object, generating a layout and validating it
AttemptOutcomes(o) ==
  { IF g.success
    THEN Then(LAMBDA v : [generated |-> TRUE, validation |-> v.validation, o |-> v.o],
              validate_layout(g.o))
    ELSE [generated |-> FALSE, validation |-> NoLayout, o |-> g.o] :
      g \in generate_layout(Cleared(o)) }

\* the end of a pass: the layout is kept if it is valid and scores higher
\* than the best so far
Kept(st, a) ==
  IF a.generated /\ a.validation.valid /\ Greater(a.validation.quality_score, st.best_score)
  THEN [o |-> a.o, best_layout |-> LayoutOf(a.o),
        best_score |-> a.validation.quality_score, best_validation |-> a.validation]
  ELSE [st EXCEPT !.o = a.o]

\* for attempt in range(n), from the loop states S, with the outcomes G of a pass
RECURSIVE OptimizeLoop(_, _, _)
OptimizeLoop(n, S, G) ==
  IF n = 0 THEN S ELSE OptimizeLoop(n - 1, { Kept(st, a) : st \in S, a \in G }, G)

\* optimize_layout(max_attempts): every outcome, as the dict returned and the
\* object afterwards; only the failure dict has a "message"
optimize_layout(o, attempts) ==
  { [result |->
       IF st.best_layout # NoLayout
       THEN [success |-> TRUE, layout |-> st.best_layout,
             validation |-> st.best_validation, attempts |-> attempts]
       ELSE [success |-> FALSE, message |-> "Failed to generate valid layout",
             attempts |-> attempts],
     o |-> st.o] :
      st \in OptimizeLoop(attempts,
                          { [o |-> o, best_layout |-> NoLayout, best_score |-> <<0, 1>>,
                             best_validation |-> NoLayout] },
                          AttemptOutcomes(o)) }

\* optimize_layout(max_attempts=5) of optimize_layout_with_interface
InterfaceAttempts == 5

\* [(pos[0], pos[1]) for the shelves of a layout]
ShelfTuples(layout) == [i \in 1 .. Len(layout.shelves) |-> layout.shelves[i].position]

\* the validation in the format of the interface
ValidationResults(validation) ==
  [reachability |-> [valid |-> validation.valid, issues |-> validation.issues],
   quality |-> [score |-> validation.quality_score],
   overall_valid |-> validation.valid]

\* the dict of an except branch or of a failure branch
Failure(initial_shelves, validation_results, message) ==
  [success |-> FALSE, optimized_shelves |-> initial_shelves,
   validation_results |-> validation_results, improvement_score |-> <<0, 1>>,
   fallback_used |-> TRUE, message |-> message]

\* optimize_layout_with_interface(initial_shelves, packing_stations): every
\* outcome, as the dict returned, the object afterwards, and what
\* optimize_layout and create_fallback_layout returned to it. Reading
\* optimization_result['message'] of a success dict raises KeyError, which
\* the except branch turns into a failure dict.
optimize_layout_with_interface(o, initial_shelves, packing_stations) ==
  { IF r.result.success
    THEN [result |->
            IF "message" \in DOMAIN r.result
            THEN [success |-> TRUE,
                  optimized_shelves |-> ShelfTuples(r.result.layout),
                  validation_results |-> ValidationResults(r.result.validation),
                  improvement_score |->
                    <<r.result.validation.quality_score[1]
                        - 50 * r.result.validation.quality_score[2],
                      r.result.validation.quality_score[2]>>,
                  fallback_used |-> FALSE, message |-> r.result.message]
            ELSE Failure(initial_shelves, NoLayout, "Optimization error"),
          o |-> r.o, optimization_result |-> r.result, fallback_result |-> NoLayout]
    ELSE Then(LAMBDA f :
                [result |->
                   IF f.result.success
                   THEN [success |-> TRUE,
                         optimized_shelves |-> ShelfTuples(f.result.layout),
                         validation_results |-> ValidationResults(f.result.validation),
                         improvement_score |-> <<0, 1>>,
                         fallback_used |-> TRUE, message |-> f.result.message]
                   ELSE Failure(initial_shelves, NoLayout, "Failed to create any valid layout"),
                 o |-> f.o, optimization_result |-> r.result,
                 fallback_result |-> f.result],
              create_fallback_layout(r.o)) :
      r \in optimize_layout(o, InterfaceAttempts) }

\* ------------------------------------------------- OptimizationEngine
\* the defaults of AdvancedLayoutOptimizer(rows, columns)
DefaultShelves == 20
DefaultStations == 2
DefaultRobots == 3

\* OptimizationEngine.__init__: self.advanced_optimizer
AdvancedOptimizerOf(grid_width, grid_height) ==
  NewOptimizer(grid_height, grid_width, DefaultShelves, DefaultStations, DefaultRobots)

\* run_heuristic_optimization(initial_shelves, packing_stations) on the
\* engine's optimizer o: every outcome, as the dict returned and the object
\* afterwards
run_heuristic_optimization(o, initial_shelves, packing_stations) ==
  { [result |->
       IF r.result.success
       THEN [r.result EXCEPT !.fallback_used = TRUE,
                             !.message = <<"Heuristic optimization", r.result.message>>]
       ELSE Failure(initial_shelves, r.result.validation_results,
                    <<"Heuristic optimization failed", r.result.message>>),
     o |-> r.o] :
      r \in optimize_layout_with_interface(o, initial_shelves, packing_stations) }

\* the shelf lists and station lists handed to the interface
InitialShelfLists == { << >>, << <<1, 1>> >>, << <<1, 1>>, <<3, 3>> >> }

\* an optimizer of its own or the optimizer of an OptimizationEngine, and the
\* initial_shelves and packing_stations of the call
InitInterface ==
  /\ phase = "interface"
  /\ optimizer \in { NewOptimizer(Height, Width, ns, np, nr) :
                       ns \in 0 .. MaxShelves, np \in 0 .. MaxStations, nr \in 0 .. MaxRobots }
                   \cup { AdvancedOptimizerOf(Width, Height) }
  /\ config \in { [grid_width |-> Width, grid_height |-> Height, shelf_positions |-> sh,
                   packing_stations |-> ps, entry_point |-> <<0, 0>>] :
                    sh \in InitialShelfLists, ps \in { << >>, << <<2, 0>> >> } }
  /\ call = NoCall
  /\ grid = BuildGrid(Range(config.shelf_positions))
  /\ activity_map = [c \in Cells |-> 0]
  /\ path_cache = NoCache
  /\ stats = [pick_times |-> << >>, distances |-> << >>, orders_completed |-> 0]
  /\ workers = << >>
  /\ procs = << >>
  /\ queue = {}
  /\ now = 0
  /\ eid = 0
  /\ next_order = 1
  /\ result = NoResult
  /\ hist = NoHist

\* optimizer.optimize_layout_with_interface(initial_shelves, packing_stations)
OptimizeLayoutWithInterface ==
  /\ phase = "interface" /\ ~call.made
  /\ \E r \in optimize_layout_with_interface(optimizer, config.shelf_positions,
                                             config.packing_stations) :
       /\ optimizer' = r.o
       /\ call' = [made |-> TRUE, n |-> 1, op |-> "optimize_layout_with_interface",
                   returned |-> r.result, optimization_result |-> r.optimization_result,
                   fallback_result |-> r.fallback_result]
  /\ UNCHANGED <<phase, config, grid, activity_map, path_cache, stats, workers, procs,
                 queue, now, eid, next_order, result, hist>>

\* engine.run_heuristic_optimization(initial_shelves, packing_stations)
RunHeuristicOptimization ==
  /\ phase = "interface" /\ ~call.made
  /\ optimizer = AdvancedOptimizerOf(config.grid_width, config.grid_height)
  /\ \E r \in run_heuristic_optimization(optimizer, config.shelf_positions,
                                         config.packing_stations) :
       /\ optimizer' = r.o
       /\ call' = [made |-> TRUE, n |-> 1, op |-> "run_heuristic_optimization",
                   returned |-> r.result]
  /\ UNCHANGED <<phase, config, grid, activity_map, path_cache, stats, workers, procs,
                 queue, now, eid, next_order, result, hist>>

NextInterface == OptimizeLayoutWithInterface \/ RunHeuristicOptimization

SpecInterface == InitInterface /\ [][NextInterface]_vars

\* C21: run_heuristic_optimization returns success = true and as many
\* optimized shelves as initial_shelves has
C21_HeuristicKeepsCount ==
  (phase = "interface" /\ call.made /\ call.op = "run_heuristic_optimization") =>
    /\ call.returned.success
    /\ Len(call.returned.optimized_shelves) = Len(config.shelf_positions)

\* C26: optimize_layout_with_interface returns success = true with
\* fallback_used = false and the optimized shelves when optimize_layout
\* succeeded, and success = true with fallback_used = true and the shelves of
\* create_fallback_layout when optimize_layout failed
C26_AlwaysSuccess ==
  (phase = "interface" /\ call.made /\ call.op = "optimize_layout_with_interface") =>
    /\ call.returned.success
    /\ IF call.optimization_result.success
       THEN /\ ~call.returned.fallback_used
            /\ call.returned.optimized_shelves = ShelfTuples(call.optimization_result.layout)
       ELSE /\ call.returned.fallback_used
            /\ call.fallback_result # NoLayout
            /\ call.returned.optimized_shelves = ShelfTuples(call.fallback_result.layout)

====
